---- MODULE Spec2Model ----
(***************************************************************************)
(* Resource client adapters of the TypeScript SDK: every adapter method    *)
(* builds a request, hands it to the optional requestLogger, dispatches it *)
(* on the channel and projects the response.  The model follows one        *)
(* adapter handle and the calls a caller makes through it; the channel and *)
(* the caller are the environment.                                         *)
(*                                                                         *)
(* JavaScript runs the synchronous prefix of an async method (up to its    *)
(* first await) without interruption, and resumes it in one piece when the *)
(* awaited promise settles, so each prefix and each resumption is one      *)
(* action.                                                                 *)
(***************************************************************************)
EXTENDS Integers, Sequences, FiniteSets, TLC

VARIABLES
  adapter,  \* the handle of the resource adapter: stub, name and options
  services, \* the handles of the adapters built from a transport alone
  calls,    \* the calls of the caller, each with its events and settlement
  queue,    \* the array the caller supplies to a queue-appending stream
  invoked,  \* the number of adapter methods the caller has invoked
  wire      \* the number of calls dispatched on the channel

vars == <<adapter, services, calls, queue, invoked, wire>>
\* the state the adapters own
handles == <<adapter, services>>
\* the counts of invocations and of dispatched calls
counters == <<invoked, wire>>

(***************************************************************************)
(* Bounds of the model.                                                    *)
(***************************************************************************)
\* chunks the streams in flight deliver at most, all together
MaxChunks == 3
\* rows of a tabular upload, and of its request times
MaxRows == 2
\* adapter methods the caller invokes at most
MaxCalls == 2
\* entries of a page of tabular data
MaxEntries == 2

(***************************************************************************)
(* JavaScript values.                                                      *)
(***************************************************************************)
Undefined == [t |-> "undefined"]
\* the object literal {}
EmptyObject == [k \in {} |-> 0]
PlainObjects == {EmptyObject, [foo |-> 1]}
\* google.protobuf.Struct messages
Structs == {[fields |-> o] : o \in PlainObjects}

\* a parameter default: `extra = {}` takes the default when the argument is
\* omitted
DefaultTo(arg, default) == IF arg = Undefined THEN default ELSE arg

\* `new Struct(init)`: the message constructor copies the members of init
\* that are fields of the message (Struct has the one field `fields`)
NewStruct(init) ==
  [fields |-> IF "fields" \in DOMAIN init THEN init.fields ELSE EmptyObject]

\* `Struct.fromJavaScript(obj)`: every key of obj becomes a field
StructFromJavaScript(obj) == [fields |-> obj]

\* `struct.toJson()`: the JSON object of the fields
StructToJson(struct) == struct.fields

\* `new Error(message)`
LocalError(message) == [kind |-> "Error", message |-> message]

(***************************************************************************)
(* Inputs of the caller and of the channel.                                *)
(***************************************************************************)
Names == {"motor-1", "nav-2"}
Powers == {0, 50}
ExtraArgs == {Undefined} \cup PlainObjects
\* the requestLogger option of the handle: absent, or a function that returns
Loggers == {"absent", "returns"}
\* and also a function that assigns to a member of its argument, or throws
AnyLoggers == Loggers \cup {"mutates", "throws"}
\* sequences over S of length at most n
RECURSIVE SeqsUpTo(_, _)
SeqsUpTo(S, n) ==
  IF n = 0 THEN {<<>>}
  ELSE LET shorter == SeqsUpTo(S, n - 1)
       IN  shorter \cup {Append(s, x) : s \in shorter, x \in S}
\* rows of tabular data, and pairs of request and receive dates (in ms)
TabularRows == SeqsUpTo({[foo |-> 1]}, MaxRows)
RequestTimes == SeqsUpTo({<<1000, 2500>>}, MaxRows)
\* the optional tags argument
TagArgs == {Undefined, [t |-> "array", items |-> <<>>],
            [t |-> "array", items |-> <<"tag-a">>]}
\* optional boolean and string arguments
Bool(b) == [t |-> "boolean", b |-> b]
Str(str) == [t |-> "string", str |-> str]
OptionalBools == {Undefined, Bool(TRUE), Bool(FALSE)}
OptionalFilters == {Undefined, Str("error")}
\* byte arrays a stream delivers, one per chunk
ByteChunks == {<<>>, <<1>>, <<2, 0>>}
\* the logs of one chunk of tailRobotPartLogs
LogChunks == {<<>>, <<"log-a">>, <<"log-b", "log-c">>}
\* the ticks StreamTicks delivers
Ticks == {[pinName |-> "pin-1", high |-> TRUE, time |-> 1],
          [pinName |-> "pin-2", high |-> FALSE, time |-> 2]}
\* the content of the queue the caller supplies to a streaming call
InitialLogQueues == {<<>>, <<"log-old">>}
InitialTickQueues == {<<>>, <<[pinName |-> "pin-0", high |-> TRUE, time |-> 0]>>}
\* the optional filter, limit and sort order of a data query
DataFilters == {Undefined, [t |-> "Filter", componentName |-> "s1"]}
Limits == {Undefined, [t |-> "bigint", n |-> 10]}
SortOrders == {Undefined, [t |-> "enum", n |-> 2]}
\* the capture metadata and the entries of a page of tabular data
CaptureMetadatas == <<[partId |-> "part-1", componentName |-> "s1"],
                      [partId |-> "part-2", componentName |-> "s2"]>>
MetadataLists == {SubSeq(CaptureMetadatas, 1, n) : n \in 0..2}
TabularEntries ==
  {[data |-> [fields |-> [foo |-> 1]], metadataIndex |-> i,
    timeRequested |-> [seconds |-> 1, nanos |-> 0],
    timeReceived |-> [seconds |-> 2, nanos |-> 500000000]] : i \in 0..2}
  \cup {[data |-> Undefined, metadataIndex |-> 0,
         timeRequested |-> Undefined, timeReceived |-> Undefined]}
\* failures the channel raises
ChannelErrors == {[kind |-> "ConnectError", message |-> "unavailable"],
                  [kind |-> "ConnectError", message |-> "deadline exceeded"]}

(***************************************************************************)
(* The record of one call: the arguments, the events of the call in order  *)
(* (logger invocations and dispatches), what the channel answered and the  *)
(* settlement of the returned promise.                                     *)
(***************************************************************************)
NoAnswer == [t |-> "none"]
Pending == [t |-> "pending"]
Resolved(value) == [t |-> "resolved", value |-> value]
Rejected(error) == [t |-> "rejected", error |-> error]

Idle == [pc |-> "idle", m |-> "none", args |-> Undefined, trace |-> <<>>,
         chan |-> NoAnswer, delivered |-> <<>>, chunks |-> <<>>,
         q0 |-> <<>>, outcome |-> Pending]

LogEvent(request) == [ev |-> "log", rpc |-> "requestLogger", req |-> request]
DispatchEvent(rpc, request) == [ev |-> "dispatch", rpc |-> rpc, req |-> request]

(***************************************************************************)
(* The synchronous prefix of a method: the events it causes, in order, and *)
(* the error it throws before its first await, if any.                     *)
(***************************************************************************)
NoThrow == [kind |-> "none", message |-> ""]
Ran(trace) == [trace |-> trace, thrown |-> NoThrow]
Threw(error) == [trace |-> <<>>, thrown |-> error]
\* statement sequencing: what follows a throw does not run
Then(first, second) ==
  IF first.thrown # NoThrow THEN first
  ELSE [trace |-> first.trace \o second.trace, thrown |-> second.thrown]

\* mutant: the logger is called without the `?.` guard
RequestLoggerUnguarded(options, request) ==
  IF options.requestLogger = "absent"
  THEN [trace |-> <<>>,
        thrown |-> [kind |-> "TypeError",
                    message |-> "requestLogger is not a function"]]
  ELSE [trace |-> <<[ev |-> "log", rpc |-> "requestLogger", req |-> request]>>,
        thrown |-> NoThrow]

\* what a logger that throws throws
LoggerError == [kind |-> "Error", message |-> "logger failed"]

\* `this.options.requestLogger?.(request)`
RequestLogger(options, request) ==
  IF options.requestLogger = "absent" THEN Ran(<<>>)
  ELSE IF options.requestLogger = "throws"
  THEN [trace |-> <<LogEvent(request)>>, thrown |-> LoggerError]
  ELSE Ran(<<LogEvent(request)>>)

\* the request object once the logger has run on it: the logger is handed
\* the object itself, and one that writes to its argument writes to the request
AfterLogger(options, request) ==
  IF options.requestLogger = "mutates" THEN [request EXCEPT !.name = "logged"]
  ELSE request

\* the call of a stub of the channel with the request
Dispatch(rpc, request) == Ran(<<DispatchEvent(rpc, request)>>)

\* `promisify(service.method.bind(service), request)` of the callback-style
\* variants: one call of the bound stub method with the request, as a promise
\* that settles as the call does
Promisify(rpc, request) == Dispatch(rpc, request)

Dispatches(trace) == SelectSeq(trace, LAMBDA e : e.ev = "dispatch")
Logs(trace) == SelectSeq(trace, LAMBDA e : e.ev = "log")

\* a JavaScript truthiness test of an object-or-undefined value
Truthy(value) == value # Undefined

(***************************************************************************)
(* MotorClient.setPower, object-literal requests.                          *)
(***************************************************************************)
\* mutant: the request is dispatched before it is logged
SetPowerCallDispatchFirst(self, power, extraArg) ==
  LET extra == DefaultTo(extraArg, EmptyObject)
      request == [name |-> self.name, powerPct |-> power,
                  extra |-> NewStruct(extra)]
  IN  Then(Dispatch("MotorService.SetPower", request),
           RequestLogger(self.options, request))

\* mutant: the extra field is left out when the map is empty
SetPowerCallNoExtra(self, power, extraArg) ==
  LET extra == DefaultTo(extraArg, EmptyObject)
      request == [name |-> self.name, powerPct |-> power,
                  extra |-> IF extra = EmptyObject THEN Undefined
                            ELSE NewStruct(extra)]
  IN  Then(RequestLogger(self.options, request),
           Dispatch("MotorService.SetPower",
                    AfterLogger(self.options, request)))

\* mutant: the call of the logger is wrapped in a try with an empty catch
SetPowerCallGuardsLogger(self, power, extraArg) ==
  LET extra == DefaultTo(extraArg, EmptyObject)
      request == [name |-> self.name, powerPct |-> power,
                  extra |-> NewStruct(extra)]
      logged == RequestLogger(self.options, request)
  IN  Then(Ran(logged.trace),
           Dispatch("MotorService.SetPower",
                    AfterLogger(self.options, request)))

SetPowerCall(self, power, extraArg) ==
  LET extra == DefaultTo(extraArg, EmptyObject)
      request == [name |-> self.name, powerPct |-> power,
                  extra |-> NewStruct(extra)]
  IN  Then(RequestLogger(self.options, request),
           Dispatch("MotorService.SetPower",
                    AfterLogger(self.options, request)))

\* `await this.client.setPower(request);` and the end of the body
SetPowerResume(response) == Resolved(Undefined)

(***************************************************************************)
(* MotorClient.stop.                                                       *)
(***************************************************************************)
\* mutant: an omitted extension map leaves the extra field out of the request
StopCallOmitsExtra(self, extraArg) ==
  LET request == [name |-> self.name,
                  extra |-> IF extraArg = Undefined THEN Undefined
                            ELSE NewStruct(extraArg)]
  IN  Then(RequestLogger(self.options, request),
           Dispatch("MotorService.Stop",
                    AfterLogger(self.options, request)))

StopCall(self, extraArg) ==
  LET extra == DefaultTo(extraArg, EmptyObject)
      request == [name |-> self.name, extra |-> NewStruct(extra)]
  IN  Then(RequestLogger(self.options, request),
           Dispatch("MotorService.Stop",
                    AfterLogger(self.options, request)))

\* `await this.client.stop(request);` and the end of the body
StopResume(response) == Resolved(Undefined)

(***************************************************************************)
(* MotorClient.isPowered.                                                  *)
(***************************************************************************)
IsPoweredCall(self, extraArg) ==
  LET extra == DefaultTo(extraArg, EmptyObject)
      request == [name |-> self.name, extra |-> NewStruct(extra)]
  IN  Then(RequestLogger(self.options, request),
           Dispatch("MotorService.IsPowered",
                    AfterLogger(self.options, request)))

\* `return [response.isOn, response.powerPct] as const;`
IsPoweredResume(response) ==
  Resolved([t |-> "tuple", items |-> <<response.isOn, response.powerPct>>])

(***************************************************************************)
(* MotorClient.setPower, message-class requests filled by setters.  The    *)
(* identifier motorService names the service stub of the adapter; promisify *)
(* issues the bound unary method once with the request.                    *)
(***************************************************************************)
SetPowerPbCall(self, power, extraArg) ==
  LET extra == DefaultTo(extraArg, EmptyObject)
      r0 == [name |-> "", powerPct |-> 0, extra |-> [fields |-> EmptyObject]]
      r1 == [r0 EXCEPT !.name = self.name]
      r2 == [r1 EXCEPT !.powerPct = power]
      request == [r2 EXCEPT !.extra = StructFromJavaScript(extra)]
  IN  Then(RequestLogger(self.options, request),
           Promisify("MotorService.SetPower",
                     AfterLogger(self.options, request)))

SetPowerPbResume(response) == Resolved(Undefined)

(***************************************************************************)
(* GantryClient.getPosition.                                               *)
(***************************************************************************)
GantryGetPositionCall(self, extraArg) ==
  LET extra == DefaultTo(extraArg, EmptyObject)
      request == [name |-> self.name, extra |-> NewStruct(extra)]
  IN  Then(RequestLogger(self.options, request),
           Dispatch("GantryService.GetPosition",
                    AfterLogger(self.options, request)))

GantryGetPositionResume(response) ==
  Resolved([t |-> "numbers", nums |-> response.positionsMm])

(***************************************************************************)
(* GantryClient.moveToPosition.                                            *)
(***************************************************************************)
MoveToPositionCall(self, positionsMm, speedsMmPerSec, extraArg) ==
  LET extra == DefaultTo(extraArg, EmptyObject)
      request == [name |-> self.name, positionsMm |-> positionsMm,
                  speedsMmPerSec |-> speedsMmPerSec,
                  extra |-> NewStruct(extra)]
  IN  Then(RequestLogger(self.options, request),
           Dispatch("GantryService.MoveToPosition",
                    AfterLogger(self.options, request)))

\* `await this.client.moveToPosition(request);` and the end of the body
MoveToPositionResume(response) == Resolved(Undefined)

(***************************************************************************)
(* NavigationClient.getLocation and isValidGeoPoint.                       *)
(***************************************************************************)
Num(n) == [t |-> "number", nan |-> FALSE, n |-> n]
NaN == [t |-> "number", nan |-> TRUE, n |-> 0]
TypeOf(value) == value.t
NumberIsNaN(value) == value.t = "number" /\ value.nan

\* mutant: the longitude is not checked for NaN
IsValidGeoPointLatitudeOnly(value) ==
  LET latitude == value.latitude
      longitude == value.longitude
  IN  ~ (\/ TypeOf(latitude) # "number"
         \/ TypeOf(longitude) # "number"
         \/ NumberIsNaN(latitude))

IsValidGeoPoint(value) ==
  LET latitude == value.latitude
      longitude == value.longitude
  IN  ~ (\/ TypeOf(latitude) # "number"
         \/ TypeOf(longitude) # "number"
         \/ NumberIsNaN(latitude)
         \/ NumberIsNaN(longitude))

GetLocationCall(self, extraArg) ==
  LET extra == DefaultTo(extraArg, EmptyObject)
      request == [name |-> self.name, extra |-> NewStruct(extra)]
  IN  Then(RequestLogger(self.options, request),
           Dispatch("NavigationService.GetLocation",
                    AfterLogger(self.options, request)))

\* mutant: a missing location is reported as an invalid one
GetLocationResumeNoPresenceCheck(response) ==
  IF ~ Truthy(response.location) \/ ~ IsValidGeoPoint(response.location)
  THEN Rejected(LocalError("invalid location"))
  ELSE Resolved([t |-> "response", resp |-> response])

GetLocationResume(response) ==
  IF ~ Truthy(response.location) THEN Rejected(LocalError("no location"))
  ELSE IF ~ IsValidGeoPoint(response.location)
       THEN Rejected(LocalError("invalid location"))
       ELSE Resolved([t |-> "response", resp |-> response])

(***************************************************************************)
(* NavigationClient.getMode.                                               *)
(***************************************************************************)
GetModeCall(self, extraArg) ==
  LET extra == DefaultTo(extraArg, EmptyObject)
      request == [name |-> self.name, extra |-> NewStruct(extra)]
  IN  Then(RequestLogger(self.options, request),
           Dispatch("NavigationService.GetMode",
                    AfterLogger(self.options, request)))

\* `return (await this.client.getMode(request)).mode;`
GetModeResume(response) == Resolved([t |-> "mode", mode |-> response.mode])

(***************************************************************************)
(* MotionClient.getPose.                                                   *)
(***************************************************************************)
GetPoseCall(self, componentName, destinationFrame, supplementalTransforms, extraArg) ==
  LET extra == DefaultTo(extraArg, EmptyObject)
      request == [name |-> self.name, componentName |-> componentName,
                  destinationFrame |-> destinationFrame,
                  supplementalTransforms |-> supplementalTransforms,
                  extra |-> NewStruct(extra)]
  IN  Then(RequestLogger(self.options, request),
           Dispatch("MotionService.GetPose",
                    AfterLogger(self.options, request)))

\* mutant: the pose of the response is returned unchecked
GetPoseResumeUnchecked(response) == Resolved(response.pose)

GetPoseResume(response) ==
  LET result == response.pose
  IN  IF ~ Truthy(result) THEN Rejected(LocalError("no pose"))
      ELSE Resolved(result)

(***************************************************************************)
(* doCommandFromClient, and MotorClient.doCommand which calls it.          *)
(***************************************************************************)
\* mutant: the command is wrapped as a plain object, which loses its fields
DoCommandFromClientCallWrapped(doCommander, name, command, options) ==
  LET request == [name |-> name, command |-> NewStruct(command.fields)]
  IN  Then(RequestLogger(options, request),
           Dispatch(doCommander, AfterLogger(options, request)))

DoCommandFromClientCall(doCommander, name, command, options) ==
  LET request == [name |-> name, command |-> NewStruct(command)]
  IN  Then(RequestLogger(options, request),
           Dispatch(doCommander, AfterLogger(options, request)))

\* mutant: a response without a result is an error
DoCommandFromClientResumeStrict(response) ==
  IF response.result = Undefined THEN Rejected(LocalError("no result"))
  ELSE Resolved([t |-> "json", json |-> StructToJson(response.result)])

DoCommandFromClientResume(response) ==
  LET result == IF response.result = Undefined THEN Undefined
                ELSE StructToJson(response.result)
  IN  IF ~ Truthy(result) THEN Resolved([t |-> "json", json |-> EmptyObject])
      ELSE Resolved([t |-> "json", json |-> result])

MotorDoCommandCall(self, command) ==
  DoCommandFromClientCall("MotorService.DoCommand", self.name, command,
                          self.options)

(***************************************************************************)
(* DataClient.tabularDataCaptureUpload.  The adapter has no options and    *)
(* no logger; `service` is the data-sync stub of the adapter.              *)
(***************************************************************************)
\* Timestamp.fromDate of a date given in milliseconds
TimestampFromDate(ms) ==
  [seconds |-> ms \div 1000, nanos |-> (ms % 1000) * 1000000]

\* mutant: only too few request times are refused
TabularDataCaptureUploadCallTooFew(tabularData, partId, componentType, componentName, methodName, dataRequestTimes, tags) ==
  IF Len(dataRequestTimes) < Len(tabularData)
  THEN Threw(LocalError("dataRequestTimes and data lengths must be equal."))
  ELSE Dispatch("DataSyncService.DataCaptureUpload",
                [metadata |-> [partId |-> partId],
                 sensorContentsList |-> <<>>])

TabularDataCaptureUploadCall(tabularData, partId, componentType, componentName, methodName, dataRequestTimes, tags) ==
  IF Len(dataRequestTimes) # Len(tabularData)
  THEN Threw(LocalError("dataRequestTimes and data lengths must be equal."))
  ELSE
    LET metadata == [partId |-> partId, componentType |-> componentType,
                     componentName |-> componentName,
                     methodName |-> methodName,
                     type |-> "DATA_TYPE_TABULAR_SENSOR",
                     tagsList |-> IF tags = Undefined THEN <<>>
                                 ELSE tags.items]
        sensorContents ==
          [i \in 1..Len(tabularData) |->
             [metadata |->
                IF i \in DOMAIN dataRequestTimes
                THEN [timeRequested |->
                        TimestampFromDate(dataRequestTimes[i][1]),
                      timeReceived |->
                        TimestampFromDate(dataRequestTimes[i][2])]
                ELSE [timeRequested |-> Undefined, timeReceived |-> Undefined],
              struct |-> StructFromJavaScript(tabularData[i])]]
        req == [metadata |-> metadata, sensorContentsList |-> sensorContents]
    IN  Promisify("DataSyncService.DataCaptureUpload", req)

TabularDataCaptureUploadResume(response) ==
  Resolved(Str(response.fileId))

(***************************************************************************)
(* DataClient.tabularDataByFilter and binaryDataByFilter.  The adapter has *)
(* no options and no logger.                                               *)
(***************************************************************************)
BigInt(n) == [t |-> "bigint", n |-> n]
Order(n) == [t |-> "enum", n |-> n]
Date(ms) == [t |-> "date", ms |-> ms]

\* `new pb.Message(init)`: the members of init that are not undefined replace
\* the defaults of the fields of the message
NewMessage(defaults, init) ==
  [f \in DOMAIN defaults |->
     IF f \in DOMAIN init /\ init[f] # Undefined THEN init[f] ELSE defaults[f]]

\* the fields of the messages with their proto3 defaults
DataRequestFields ==
  [filter |-> Undefined, limit |-> BigInt(0), sortOrder |-> Order(0),
   last |-> Str("")]
TabularDataByFilterRequestFields ==
  [dataRequest |-> Undefined, countOnly |-> Bool(FALSE),
   includeInternalData |-> Bool(FALSE)]
BinaryDataByFilterRequestFields ==
  [dataRequest |-> Undefined, includeBinary |-> Bool(FALSE),
   countOnly |-> Bool(FALSE), includeInternalData |-> Bool(FALSE)]
\* `new dataPb.CaptureMetadata()`
NewCaptureMetadata == [partId |-> "", componentName |-> ""]

\* array[index], with indices from 0: undefined out of the bounds
ArrayGet(array, index) ==
  IF 0 <= index /\ index < Len(array) THEN array[index + 1] ELSE Undefined

\* timestamp?.toDate()
TimestampToDate(timestamp) ==
  IF timestamp = Undefined THEN Undefined
  ELSE Date(timestamp.seconds * 1000 +
            (timestamp.nanos + 999999) \div 1000000)

TabularDataByFilterCall(filter, limit, sortOrder, lastArg, countOnlyArg, includeInternalDataArg) ==
  LET last == DefaultTo(lastArg, Str(""))
      countOnly == DefaultTo(countOnlyArg, Bool(FALSE))
      includeInternalData == DefaultTo(includeInternalDataArg, Bool(FALSE))
      dataReq == NewMessage(DataRequestFields,
                            [filter |-> filter, limit |-> limit,
                             sortOrder |-> sortOrder, last |-> last])
      req == NewMessage(TabularDataByFilterRequestFields,
                        [dataRequest |-> dataReq, countOnly |-> countOnly,
                         includeInternalData |-> includeInternalData])
  IN  Dispatch("DataService.TabularDataByFilter", req)

TabularDataByFilterResume(response) ==
  LET mdListLength == Len(response.metadata)
      Entry(data) ==
        LET mdIndex == data.metadataIndex
            metadata == IF mdListLength # 0 /\ mdIndex >= mdListLength
                        THEN NewCaptureMetadata
                        ELSE ArrayGet(response.metadata, mdIndex)
        IN  [data |-> IF data.data = Undefined THEN Undefined
                      ELSE StructToJson(data.data),
             metadata |-> metadata,
             timeRequested |-> TimestampToDate(data.timeRequested),
             timeReceived |-> TimestampToDate(data.timeRequested)]
      dataArray == [i \in DOMAIN response.data |-> Entry(response.data[i])]
  IN  Resolved([t |-> "page", data |-> dataArray, count |-> response.count,
                last |-> response.last])

BinaryDataByFilterCall(filter, limit, sortOrder, lastArg, includeBinaryArg, countOnlyArg, includeInternalDataArg) ==
  LET last == DefaultTo(lastArg, Str(""))
      includeBinary == DefaultTo(includeBinaryArg, Bool(TRUE))
      countOnly == DefaultTo(countOnlyArg, Bool(FALSE))
      includeInternalData == DefaultTo(includeInternalDataArg, Bool(FALSE))
      dataReq == NewMessage(DataRequestFields,
                            [filter |-> filter, limit |-> limit,
                             sortOrder |-> sortOrder, last |-> last])
      req == NewMessage(BinaryDataByFilterRequestFields,
                        [dataRequest |-> dataReq,
                         includeBinary |-> includeBinary,
                         countOnly |-> countOnly,
                         includeInternalData |-> includeInternalData])
  IN  Dispatch("DataService.BinaryDataByFilter", req)

BinaryDataByFilterResume(response) ==
  Resolved([t |-> "page", data |-> response.data, count |-> response.count,
            last |-> response.last])

(***************************************************************************)
(* concatArrayU8 (the same text in billing-client.ts and the SLAM client). *)
(* Arrays are indexed from 1 here; `length` is the 0-based write offset.   *)
(***************************************************************************)
RECURSIVE SumLengths(_)
\* arrays.reduce((acc, value) => acc + value.length, 0)
SumLengths(arrays) ==
  IF arrays = <<>> THEN 0 ELSE Len(Head(arrays)) + SumLengths(Tail(arrays))

\* result.set(array, offset)
TypedArraySet(result, array, offset) ==
  [i \in DOMAIN result |->
     IF offset < i /\ i <= offset + Len(array) THEN array[i - offset]
     ELSE result[i]]

RECURSIVE ConcatLoop(_, _, _)
\* mutant: the write offset is not advanced
ConcatLoopNoAdvance(result, arrays, length) ==
  IF arrays = <<>> THEN result
  ELSE ConcatLoop(TypedArraySet(result, Head(arrays), length), Tail(arrays),
                  length)

ConcatLoop(result, arrays, length) ==
  IF arrays = <<>> THEN result
  ELSE ConcatLoop(TypedArraySet(result, Head(arrays), length), Tail(arrays),
                  length + Len(Head(arrays)))

ConcatArrayU8(arrays) ==
  LET totalLength == SumLengths(arrays)
      result == [i \in 1..totalLength |-> 0]
  IN  ConcatLoop(result, arrays, 0)

(***************************************************************************)
(* SlamClient.getPointCloudMap and getInternalState.                       *)
(***************************************************************************)
GetPointCloudMapCall(self, returnEditedMap) ==
  LET request == [name |-> self.name, returnEditedMap |-> returnEditedMap]
  IN  Then(RequestLogger(self.options, request),
           Dispatch("SLAMService.GetPointCloudMap",
                    AfterLogger(self.options, request)))

\* the body of the for-await loop
GetPointCloudMapOnChunk(chunks, chunk) ==
  Append(chunks, chunk.pointCloudPcdChunk)

GetInternalStateCall(self) ==
  LET request == [name |-> self.name]
  IN  Then(RequestLogger(self.options, request),
           Dispatch("SLAMService.GetInternalState",
                    AfterLogger(self.options, request)))

GetInternalStateOnChunk(chunks, chunk) ==
  Append(chunks, chunk.internalStateChunk)

(***************************************************************************)
(* BillingClient.getInvoicePdf.  The adapter has no options and no logger. *)
(***************************************************************************)
GetInvoicePdfCall(id, orgId) ==
  Dispatch("BillingService.GetInvoicePdf", [id |-> id, orgId |-> orgId])

GetInvoicePdfOnChunk(chunks, pdfPart) == Append(chunks, pdfPart.chunk)

\* `return concatArrayU8(chunks)` after the loop
BytesReturn(chunks) == Resolved([t |-> "bytes", bytes |-> ConcatArrayU8(chunks)])

(***************************************************************************)
(* AppClient.tailRobotPartLogs.  The adapter has no options and no logger. *)
(***************************************************************************)
TailRobotPartLogsCall(id, filter, errorsOnlyArg) ==
  LET errorsOnly == DefaultTo(errorsOnlyArg, Bool(TRUE))
  IN  Dispatch("AppService.TailRobotPartLogs",
               [id |-> id, errorsOnly |-> errorsOnly, filter |-> filter])

RECURSIVE ForEachPush(_, _)
\* logs.forEach((log) => q.push(log))
ForEachPush(q, logs) ==
  IF logs = <<>> THEN q
  ELSE ForEachPush(Append(q, Head(logs)), Tail(logs))

\* mutant: the logs of a chunk are put in front of the queue
TailRobotPartLogsOnEntryUnshift(q, entry) == ForEachPush(entry.logs, q)

\* mutant: a log that the queue already holds is not pushed again
TailRobotPartLogsOnEntryNew(q, entry) ==
  ForEachPush(q, SelectSeq(entry.logs,
                           LAMBDA log : \A i \in DOMAIN q : q[i] # log))

TailRobotPartLogsOnEntry(q, entry) == ForEachPush(q, entry.logs)

(***************************************************************************)
(* BoardClient.streamTicks, async-iterator variant.                        *)
(***************************************************************************)
StreamTicksCall(self, interrupts, extraArg) ==
  LET extra == DefaultTo(extraArg, EmptyObject)
      request == [name |-> self.name, pinNames |-> interrupts,
                  extra |-> NewStruct(extra)]
  IN  Then(RequestLogger(self.options, request),
           Dispatch("BoardService.StreamTicks",
                    AfterLogger(self.options, request)))

\* mutant: the queue is kept to two entries, the oldest giving way
StreamTicksOnTickBounded(q, tick) ==
  LET kept == IF Len(q) >= 2 THEN Tail(q) ELSE q
  IN  Append(kept, [pinName |-> tick.pinName, high |-> tick.high,
                    time |-> tick.time])

StreamTicksOnTick(q, tick) ==
  Append(q, [pinName |-> tick.pinName, high |-> tick.high,
             time |-> tick.time])

(***************************************************************************)
(* BoardClient.streamTicks, event-listener variant.  The method returns a  *)
(* promise whose resolve and reject functions are called by the 'status'   *)
(* and 'end' listeners of the stream.                                      *)
(***************************************************************************)
\* the statuses a stream reports: OK and UNAVAILABLE
Statuses == {[code |-> 0, details |-> "", metadata |-> "trailers"],
             [code |-> 14, details |-> "unavailable", metadata |-> "trailers"]}
\* what the 'end' event carries: a status, or nothing
EndArgs == {Undefined} \cup Statuses

\* the resolving functions of `new Promise((resolve, reject) => ...)`: they
\* settle a pending promise and do nothing on a settled one
\* mutant: resolve() settles the promise again
ResolveOverrides(outcome, value) == Resolved(value)

Resolve(outcome, value) == IF outcome = Pending THEN Resolved(value) ELSE outcome

Reject(outcome, error) == IF outcome = Pending THEN Rejected(error) ELSE outcome

StreamTicksPbCall(self, interrupts, extraArg) ==
  LET extra == DefaultTo(extraArg, EmptyObject)
      r0 == [name |-> "", pinNames |-> <<>>, extra |-> [fields |-> EmptyObject]]
      r1 == [r0 EXCEPT !.name = self.name]
      r2 == [r1 EXCEPT !.pinNames = interrupts]
      request == [r2 EXCEPT !.extra = StructFromJavaScript(extra)]
  IN  Then(RequestLogger(self.options, request),
           Dispatch("BoardService.StreamTicks",
                    AfterLogger(self.options, request)))

\* stream.on('data', ...)
StreamTicksPbOnData(q, response) ==
  LET tick == [pinName |-> response.pinName, high |-> response.high,
               time |-> response.time]
  IN  Append(q, tick)

\* stream.on('status', ...)
StreamTicksPbOnStatus(outcome, status) ==
  IF status.code # 0
  THEN LET error == [message |-> status.details, code |-> status.code,
                     metadata |-> status.metadata]
       IN  Reject(outcome, error)
  ELSE outcome

\* stream.on('end', ...): resolve() follows the if statement on every path
StreamTicksPbOnEnd(outcome, end) ==
  LET checked ==
        IF end = Undefined
        THEN LET error == [message |-> "Stream ended without a status code"]
             IN  Reject(outcome, error)
        ELSE IF end.code # 0
        THEN LET error == [message |-> end.details, code |-> end.code,
                           metadata |-> end.metadata]
             IN  Reject(outcome, error)
        ELSE outcome
  IN  Resolve(checked, Undefined)

(***************************************************************************)
(* BoardClient, in its two variants: requests written as object literals   *)
(* and sent with the promise client, and requests built from the message   *)
(* classes and sent through promisify.  The unary operations have one      *)
(* shape: build the request, hand it to the logger, call the stub, await.  *)
(***************************************************************************)
BoardUnaryOperations ==
  {"setGPIO", "getGPIO", "getPWM", "setPWM", "getPWMFrequency",
   "setPWMFrequency", "readAnalogReader", "writeAnalog",
   "getDigitalInterruptValue", "setPowerMode"}

\* the method of an operation in the object-literal variant and in the
\* message-class variant
BoardMethod ==
  [setGPIO |-> <<"Board.setGPIO", "BoardPb.setGPIO">>,
   getGPIO |-> <<"Board.getGPIO", "BoardPb.getGPIO">>,
   getPWM |-> <<"Board.getPWM", "BoardPb.getPWM">>,
   setPWM |-> <<"Board.setPWM", "BoardPb.setPWM">>,
   getPWMFrequency |-> <<"Board.getPWMFrequency", "BoardPb.getPWMFrequency">>,
   setPWMFrequency |-> <<"Board.setPWMFrequency", "BoardPb.setPWMFrequency">>,
   readAnalogReader |->
     <<"Board.readAnalogReader", "BoardPb.readAnalogReader">>,
   writeAnalog |-> <<"Board.writeAnalog", "BoardPb.writeAnalog">>,
   getDigitalInterruptValue |->
     <<"Board.getDigitalInterruptValue", "BoardPb.getDigitalInterruptValue">>,
   streamTicks |-> <<"Board.streamTicks", "BoardPb.streamTicks">>,
   setPowerMode |-> <<"Board.setPowerMode", "BoardPb.setPowerMode">>]

\* the arguments of an operation, by parameter name.  The message-class
\* setPowerMode has one more, leading parameter, `name`, which it never reads
BoardArgs(op) ==
  CASE op \in {"getGPIO", "getPWM", "getPWMFrequency"} ->
         [pin : {"pin-1"}, extra : ExtraArgs]
    [] op = "setGPIO" -> [pin : {"pin-1"}, high : BOOLEAN, extra : ExtraArgs]
    [] op = "setPWM" -> [pin : {"pin-1"}, dutyCyle : {0, 50}, extra : ExtraArgs]
    [] op = "setPWMFrequency" ->
         [pin : {"pin-1"}, frequencyHz : {BigInt(100)}, extra : ExtraArgs]
    [] op = "readAnalogReader" ->
         [analogReader : {"reader-1"}, extra : ExtraArgs]
    [] op = "writeAnalog" -> [pin : {"pin-1"}, value : {3}, extra : ExtraArgs]
    [] op = "getDigitalInterruptValue" ->
         [digitalInterruptName : {"interrupt-1"}, extra : ExtraArgs]
    [] op = "setPowerMode" ->
         [powerMode : {1, 2},
          duration : {Undefined, [seconds |-> 1, nanos |-> 500]},
          extra : ExtraArgs]

\* the method of the stub an operation calls
BoardRpc(op) ==
  CASE op = "setGPIO" -> "BoardService.SetGPIO"
    [] op = "getGPIO" -> "BoardService.GetGPIO"
    [] op = "getPWM" -> "BoardService.PWM"
    [] op = "setPWM" -> "BoardService.SetPWM"
    [] op = "getPWMFrequency" -> "BoardService.PWMFrequency"
    [] op = "setPWMFrequency" -> "BoardService.SetPWMFrequency"
    [] op = "readAnalogReader" -> "BoardService.ReadAnalogReader"
    [] op = "writeAnalog" -> "BoardService.WriteAnalog"
    [] op = "getDigitalInterruptValue" ->
         "BoardService.GetDigitalInterruptValue"
    [] op = "setPowerMode" -> "BoardService.SetPowerMode"

\* the request of an operation, object-literal variant
BoardRequest(self, op, args) ==
  LET extra == NewStruct(DefaultTo(args.extra, EmptyObject))
  IN  CASE op = "setGPIO" ->
             [name |-> self.name, pin |-> args.pin, high |-> args.high,
              extra |-> extra]
        [] op \in {"getGPIO", "getPWM", "getPWMFrequency"} ->
             [name |-> self.name, pin |-> args.pin, extra |-> extra]
        [] op = "setPWM" ->
             [name |-> self.name, pin |-> args.pin,
              dutyCyclePct |-> args.dutyCyle, extra |-> extra]
        [] op = "setPWMFrequency" ->
             [name |-> self.name, pin |-> args.pin,
              frequencyHz |-> args.frequencyHz, extra |-> extra]
        [] op = "readAnalogReader" ->
             [boardName |-> self.name, analogReaderName |-> args.analogReader,
              extra |-> extra]
        [] op = "writeAnalog" ->
             [name |-> self.name, pin |-> args.pin, value |-> args.value,
              extra |-> extra]
        [] op = "getDigitalInterruptValue" ->
             [boardName |-> self.name,
              digitalInterruptName |-> args.digitalInterruptName,
              extra |-> extra]
        [] op = "setPowerMode" ->
             [name |-> self.name, powerMode |-> args.powerMode,
              duration |-> args.duration, extra |-> extra]

\* the request of an operation, message-class variant: the message is
\* constructed from the same members.  getPWM then sets name, pin and extra
\* again, extra from Struct.fromJavaScript; setPowerMode sets the duration
\* field only when a duration is given, from its seconds and nanos
BoardPbRequest(self, op, args) ==
  LET extra == NewStruct(DefaultTo(args.extra, EmptyObject))
  IN  CASE op = "setGPIO" ->
             [name |-> self.name, pin |-> args.pin, high |-> args.high,
              extra |-> extra]
        [] op \in {"getGPIO", "getPWMFrequency"} ->
             [name |-> self.name, pin |-> args.pin, extra |-> extra]
        [] op = "getPWM" ->
             [[name |-> self.name, pin |-> args.pin, extra |-> extra]
                EXCEPT !.name = self.name, !.pin = args.pin,
                       !.extra = StructFromJavaScript(
                                   DefaultTo(args.extra, EmptyObject))]
        [] op = "setPWM" ->
             [name |-> self.name, pin |-> args.pin,
              dutyCyclePct |-> args.dutyCyle, extra |-> extra]
        [] op = "setPWMFrequency" ->
             [name |-> self.name, pin |-> args.pin,
              frequencyHz |-> args.frequencyHz, extra |-> extra]
        [] op = "readAnalogReader" ->
             [boardName |-> self.name, analogReaderName |-> args.analogReader,
              extra |-> extra]
        [] op = "writeAnalog" ->
             [name |-> self.name, pin |-> args.pin, value |-> args.value,
              extra |-> extra]
        [] op = "getDigitalInterruptValue" ->
             [boardName |-> self.name,
              digitalInterruptName |-> args.digitalInterruptName,
              extra |-> extra]
        [] op = "setPowerMode" ->
             LET r0 == [name |-> self.name, powerMode |-> args.powerMode,
                        duration |-> Undefined, extra |-> extra]
                 pbDuration == [seconds |-> args.duration.seconds,
                                nanos |-> args.duration.nanos]
             IN  IF Truthy(args.duration)
                 THEN [r0 EXCEPT !.duration = pbDuration]
                 ELSE r0

BoardCall(self, op, args) ==
  LET request == BoardRequest(self, op, args)
  IN  Then(RequestLogger(self.options, request),
           Dispatch(BoardRpc(op), AfterLogger(self.options, request)))

BoardPbCall(self, op, args) ==
  LET request == BoardPbRequest(self, op, args)
  IN  Then(RequestLogger(self.options, request),
           Promisify(BoardRpc(op), AfterLogger(self.options, request)))

\* what an operation returns from the response, in either variant: a
\* member of the response, or nothing
BoardResume(op, response) ==
  CASE op \in {"setGPIO", "setPWM", "setPWMFrequency", "writeAnalog",
               "setPowerMode"} ->
         Resolved(Undefined)
    [] op = "getGPIO" -> Resolved(Bool(response.high))
    [] op = "getPWM" -> Resolved(Num(response.dutyCyclePct))
    [] op = "getPWMFrequency" -> Resolved(response.frequencyHz)
    [] op = "readAnalogReader" -> Resolved([value |-> response.value])
    [] op = "getDigitalInterruptValue" -> Resolved(Num(response.value))

(***************************************************************************)
(* DataClient.createFilter.  The method is synchronous: it returns the     *)
(* filter, not a promise.                                                  *)
(***************************************************************************)
\* the fields of Filter, CaptureInterval and TagsFilter with their defaults
FilterFields ==
  [componentName |-> Str(""), interval |-> Undefined, tagsFilter |-> Undefined]
NewCaptureInterval == [start |-> Undefined, end |-> Undefined]
NewTagsFilter == [type |-> 0, tags |-> <<>>]
\* FilterOptions: members of Filter, and startTime, endTime and tags
FilterOptions ==
  [componentName : {Undefined, Str("s1")},
   interval : {Undefined, [start |-> TimestampFromDate(0), end |-> Undefined]},
   tagsFilter : {Undefined, [type |-> 1, tags |-> <<"tag-b">>]},
   startTime : {Undefined, Date(1000)},
   endTime : {Undefined, Date(2500)},
   tags : TagArgs]

\* `a ?? b`
NullishCoalesce(a, b) == IF a = Undefined THEN b ELSE a

\* the value a synchronous method returns
Returned(value) == [t |-> "returned", value |-> value]

\* mutant: the interval is set only when both times are given
CreateFilterCallNeedsBoth(options) ==
  LET filter0 == NewMessage(FilterFields, options)
      interval0 == NewCaptureInterval
      interval1 == IF Truthy(options.startTime)
                   THEN [interval0 EXCEPT
                           !.start = TimestampFromDate(options.startTime.ms)]
                   ELSE interval0
      interval2 == IF Truthy(options.endTime)
                   THEN [interval1 EXCEPT
                           !.end = TimestampFromDate(options.endTime.ms)]
                   ELSE interval1
      filter1 == IF Truthy(options.startTime) /\ Truthy(options.endTime)
                 THEN [filter0 EXCEPT !.interval = interval2]
                 ELSE filter0
      tagsFilter == [NewTagsFilter EXCEPT !.tags = options.tags.items]
      filter2 == IF Truthy(options.tags)
                 THEN [filter1 EXCEPT !.tagsFilter = tagsFilter]
                 ELSE filter1
  IN  [trace |-> <<>>, thrown |-> NoThrow, returned |-> Returned(filter2)]

CreateFilterCall(options) ==
  LET filter0 == NewMessage(FilterFields, options)
      interval0 == NewCaptureInterval
      interval1 == IF Truthy(options.startTime)
                   THEN [interval0 EXCEPT
                           !.start = TimestampFromDate(options.startTime.ms)]
                   ELSE interval0
      interval2 == IF Truthy(options.endTime)
                   THEN [interval1 EXCEPT
                           !.end = TimestampFromDate(options.endTime.ms)]
                   ELSE interval1
      filter1 == IF Truthy(NullishCoalesce(options.startTime, options.endTime))
                 THEN [filter0 EXCEPT !.interval = interval2]
                 ELSE filter0
      tagsFilter == [NewTagsFilter EXCEPT !.tags = options.tags.items]
      filter2 == IF Truthy(options.tags)
                 THEN [filter1 EXCEPT !.tagsFilter = tagsFilter]
                 ELSE filter1
  IN  [trace |-> <<>>, thrown |-> NoThrow, returned |-> Returned(filter2)]

(***************************************************************************)
(* SensorClient.getReadings.                                               *)
(***************************************************************************)
\* the JavaScript null
Null == [t |-> "null"]
\* google.protobuf.Value messages, by the case of their kind: the number 0,
\* a string and null
Values == {[case |-> "numberValue", value |-> Num(0)],
           [case |-> "stringValue", value |-> Str("wet")],
           [case |-> "nullValue", value |-> [t |-> "enum", n |-> 0]]}
\* `value.toJson()`: the number, the string, or null
ValueToJson(value) ==
  IF value.case = "nullValue" THEN Null ELSE value.value

ReadingKeys == {"humidity", "temperature"}
\* the readings of a response: a value, or nothing, under each of its keys
Readings ==
  UNION {[keys -> Values \cup {Undefined}] : keys \in SUBSET ReadingKeys}

RECURSIVE ObjectKeys(_)
\* `Object.keys(obj)`
ObjectKeys(obj) ==
  IF DOMAIN obj = {} THEN <<>>
  ELSE LET key == CHOOSE k \in DOMAIN obj : TRUE
       IN  <<key>> \o ObjectKeys([k \in DOMAIN obj \ {key} |-> obj[k]])

\* `obj[key] = value`
ObjectSet(obj, key, value) ==
  [k \in DOMAIN obj \cup {key} |-> IF k = key THEN value ELSE obj[k]]

GetReadingsCall(self, extraArg) ==
  LET extra == DefaultTo(extraArg, EmptyObject)
      request == [name |-> self.name, extra |-> NewStruct(extra)]
  IN  Then(RequestLogger(self.options, request),
           Dispatch("SensorService.GetReadings",
                    AfterLogger(self.options, request)))

RECURSIVE GetReadingsLoop(_, _, _)
\* mutant: a reading is skipped when its JSON form is falsy
GetReadingsLoopSkipsFalsy(result, keys, readings) ==
  IF keys = <<>> THEN result
  ELSE LET key == Head(keys)
           value == readings[key]
           falsy == {Undefined, Null, Num(0), Str(""), Bool(FALSE)}
       IN  IF ~ Truthy(value) \/ ValueToJson(value) \in falsy
           THEN GetReadingsLoop(result, Tail(keys), readings)
           ELSE GetReadingsLoop(ObjectSet(result, key, ValueToJson(value)),
                                Tail(keys), readings)

\* for (const key of Object.keys(response.readings)) { ... }
GetReadingsLoop(result, keys, readings) ==
  IF keys = <<>> THEN result
  ELSE LET key == Head(keys)
           value == readings[key]
       IN  IF ~ Truthy(value)
           THEN GetReadingsLoop(result, Tail(keys), readings)
           ELSE GetReadingsLoop(ObjectSet(result, key, ValueToJson(value)),
                                Tail(keys), readings)

GetReadingsResume(response) ==
  LET result == GetReadingsLoop(EmptyObject, ObjectKeys(response.readings),
                                response.readings)
  IN  Resolved([t |-> "record", members |-> result])

(***************************************************************************)
(* Constructors.  A constructor yields the handle and the events it        *)
(* causes.  createPromiseClient builds the object of stub methods over the *)
(* transport; RobotClient.createServiceClient hands out such an object for *)
(* the robot's channel.                                                    *)
(***************************************************************************)
NotConstructed == [t |-> "none"]
Transport == [t |-> "transport"]
Robot == [t |-> "robot", transport |-> Transport]

CreatePromiseClient(service, transport) ==
  [stub |-> [service |-> service, transport |-> transport], trace |-> <<>>]

CreateServiceClient(client, service) ==
  [stub |-> [service |-> service, transport |-> client.transport],
   trace |-> <<>>]

\* the constructor of a resource adapter (MotorClient and the like)
MotorClientConstructor(client, name, options) ==
  LET made == CreateServiceClient(client, "ResourceService")
  IN  [self |-> [client |-> made.stub, name |-> name, options |-> options],
       trace |-> made.trace]

\* mutant: the constructor opens the log stream of the app service
AppClientConstructorConnects(transport) ==
  LET made == CreatePromiseClient("AppService", transport)
  IN  [self |-> [client |-> made.stub],
       trace |-> made.trace \o
                 Dispatch("AppService.TailRobotPartLogs", EmptyObject).trace]

AppClientConstructor(transport) ==
  LET made == CreatePromiseClient("AppService", transport)
  IN  [self |-> [client |-> made.stub], trace |-> made.trace]

BillingClientConstructor(transport) ==
  LET made == CreatePromiseClient("BillingService", transport)
  IN  [self |-> [client |-> made.stub], trace |-> made.trace]

DataClientConstructor(transport) ==
  LET data == CreatePromiseClient("DataService", transport)
      dataset == CreatePromiseClient("DatasetService", transport)
      dataSync == CreatePromiseClient("DataSyncService", transport)
  IN  [self |-> [dataClient |-> data.stub, datasetClient |-> dataset.stub,
                 dataSyncClient |-> dataSync.stub],
       trace |-> data.trace \o dataset.trace \o dataSync.trace]

(***************************************************************************)
(* Adapters constructed with an options bag (name, channel, options), and  *)
(* the unary methods.  AppClient, BillingClient and DataClient are built   *)
(* from a transport alone.                                                 *)
(***************************************************************************)
MethodsWithOptions ==
  {"Motor.setPower", "MotorPb.setPower", "Motor.stop", "Motor.isPowered",
   "Motor.doCommand", "Gantry.getPosition", "Gantry.moveToPosition",
   "Navigation.getMode", "Navigation.getLocation", "Motion.getPose",
   "Slam.getPointCloudMap", "Slam.getInternalState", "Board.streamTicks"}
UnaryMethods ==
  {"Motor.setPower", "MotorPb.setPower", "Motor.stop", "Motor.isPowered",
   "Motor.doCommand", "Gantry.getPosition", "Gantry.moveToPosition",
   "Navigation.getMode", "Navigation.getLocation", "Motion.getPose",
   "Data.tabularDataCaptureUpload", "Data.tabularDataByFilter",
   "Data.binaryDataByFilter"}

(***************************************************************************)
(* The streaming methods, by what their loop feeds.                        *)
(***************************************************************************)
ByteStreamMethods ==
  {"Slam.getPointCloudMap", "Slam.getInternalState", "Billing.getInvoicePdf"}
QueueStreamMethods == {"App.tailRobotPartLogs", "Board.streamTicks"}

\* what the transport delivers on a stream, by method
StreamChunks(m) ==
  CASE m = "Slam.getPointCloudMap" ->
         {[pointCloudPcdChunk |-> b] : b \in ByteChunks}
    [] m = "Slam.getInternalState" ->
         {[internalStateChunk |-> b] : b \in ByteChunks}
    [] m = "Billing.getInvoicePdf" -> {[chunk |-> b] : b \in ByteChunks}
    [] m = "App.tailRobotPartLogs" -> {[logs |-> l] : l \in LogChunks}
    [] m = "Board.streamTicks" -> Ticks

\* the chunk array of a byte-accumulating call after one more chunk
ChunksAfter(m, chunks, chunk) ==
  CASE m = "Slam.getPointCloudMap" -> GetPointCloudMapOnChunk(chunks, chunk)
    [] m = "Slam.getInternalState" -> GetInternalStateOnChunk(chunks, chunk)
    [] m = "Billing.getInvoicePdf" -> GetInvoicePdfOnChunk(chunks, chunk)
    [] OTHER -> chunks

\* the caller's queue after one more chunk of a queue-appending call
QueueAfter(m, q, chunk) ==
  CASE m = "App.tailRobotPartLogs" -> TailRobotPartLogsOnEntry(q, chunk)
    [] m = "Board.streamTicks" -> StreamTicksOnTick(q, chunk)
    [] OTHER -> q

\* the settlement of a streaming method once its loop ends
StreamReturn(m, chunks) ==
  IF m \in ByteStreamMethods THEN BytesReturn(chunks) ELSE Resolved(Undefined)

\* a stream that fails throws out of the for-await loop
ForAwaitThrows(error) == Rejected(error)

(***************************************************************************)
(* Responses of the channel, by method.                                    *)
(***************************************************************************)
Coordinates == {Num(0), Num(7), NaN, Undefined}
\* the Mode enum of the navigation service: unspecified, manual, waypoint
Modes == {0, 1, 2}
\* the poses in frame of a GetPose response
Poses == {[t |-> "PoseInFrame", referenceFrame |-> "world",
           pose |-> [x |-> 1, y |-> 2, z |-> 3]],
          [t |-> "PoseInFrame", referenceFrame |-> "arm",
           pose |-> [x |-> 0, y |-> 0, z |-> 0]]}
GeoPoints == [t : {"object"}, latitude : Coordinates, longitude : Coordinates]

Responses(m) ==
  CASE m \in {"Motor.setPower", "MotorPb.setPower", "Motor.stop",
              "Gantry.moveToPosition"} ->
         {EmptyObject}
    [] m = "Navigation.getMode" -> {[mode |-> md] : md \in Modes}
    [] m = "Motion.getPose" -> {[pose |-> ps] : ps \in {Undefined} \cup Poses}
    [] m = "Motor.isPowered" ->
         {[isOn |-> TRUE, powerPct |-> 50], [isOn |-> FALSE, powerPct |-> 0]}
    [] m = "Gantry.getPosition" ->
         {[positionsMm |-> <<>>], [positionsMm |-> <<10, 20>>]}
    [] m = "Navigation.getLocation" ->
         {[location |-> l] : l \in {Undefined} \cup GeoPoints}
    [] m = "Motor.doCommand" ->
         {[result |-> r] : r \in {Undefined} \cup Structs}
    [] m = "Data.tabularDataCaptureUpload" -> {[fileId |-> "file-1"]}
    [] m = "Data.tabularDataByFilter" ->
         {[metadata |-> md, data |-> d, count |-> Len(d), last |-> "id-9"] :
            md \in MetadataLists, d \in SeqsUpTo(TabularEntries, MaxEntries)}
    [] m = "Data.binaryDataByFilter" ->
         {[data |-> d, count |-> Len(d), last |-> "id-9"] :
            d \in {<<>>, <<[binary |-> <<1, 2>>]>>}}
    [] m = "Sensor.getReadings" -> {[readings |-> r] : r \in Readings}
    [] m \in {BoardMethod[op][v] :
                 op \in {"setGPIO", "setPWM", "setPWMFrequency",
                         "writeAnalog", "setPowerMode"}, v \in {1, 2}} ->
         {EmptyObject}
    [] m \in {"Board.getGPIO", "BoardPb.getGPIO"} ->
         {[high |-> b] : b \in BOOLEAN}
    [] m \in {"Board.getPWM", "BoardPb.getPWM"} ->
         {[dutyCyclePct |-> d] : d \in {0, 50}}
    [] m \in {"Board.getPWMFrequency", "BoardPb.getPWMFrequency"} ->
         {[frequencyHz |-> BigInt(100)]}
    [] m \in {"Board.readAnalogReader", "BoardPb.readAnalogReader",
              "Board.getDigitalInterruptValue",
              "BoardPb.getDigitalInterruptValue"} ->
         {[value |-> 3]}

\* the resumption of the method after its await, by method
Resume(m, response) ==
  CASE m = "Motor.setPower" -> SetPowerResume(response)
    [] m = "MotorPb.setPower" -> SetPowerPbResume(response)
    [] m = "Motor.stop" -> StopResume(response)
    [] m = "Motor.isPowered" -> IsPoweredResume(response)
    [] m = "Navigation.getMode" -> GetModeResume(response)
    [] m = "Gantry.getPosition" -> GantryGetPositionResume(response)
    [] m = "Gantry.moveToPosition" -> MoveToPositionResume(response)
    [] m = "Navigation.getLocation" -> GetLocationResume(response)
    [] m = "Motion.getPose" -> GetPoseResume(response)
    [] m = "Motor.doCommand" -> DoCommandFromClientResume(response)
    [] m = "Data.tabularDataCaptureUpload" ->
         TabularDataCaptureUploadResume(response)
    [] m = "Data.tabularDataByFilter" -> TabularDataByFilterResume(response)
    [] m = "Data.binaryDataByFilter" -> BinaryDataByFilterResume(response)
    [] m = "Sensor.getReadings" -> GetReadingsResume(response)
    [] \E o \in BoardUnaryOperations :
         m \in {BoardMethod[o][1], BoardMethod[o][2]} ->
         LET op == CHOOSE o \in BoardUnaryOperations :
                     m \in {BoardMethod[o][1], BoardMethod[o][2]}
         IN  BoardResume(op, response)

\* an awaited channel call that fails throws out of the method: no adapter
\* has a try or a catch
\* mutant: the failure is caught and the method returns
AwaitSwallows(error) == Resolved(Undefined)

AwaitThrows(error) == Rejected(error)

(***************************************************************************)
(* Actions.                                                                *)
(***************************************************************************)
\* the state of a call after its synchronous prefix
Started(c, m, args, ran) ==
  [calls EXCEPT ![c] =
     IF ran.thrown # NoThrow
     THEN [Idle EXCEPT !.pc = "settled", !.m = m, !.args = args,
                       !.trace = ran.trace, !.outcome = Rejected(ran.thrown)]
     ELSE [Idle EXCEPT !.pc = "awaiting", !.m = m, !.args = args,
                       !.trace = ran.trace]]

\* the state of a streaming call when it enters its for-await loop; q0 is the
\* content of the caller's queue at the call
StartedStream(c, m, args, ran, q0) ==
  [calls EXCEPT ![c] =
     IF ran.thrown # NoThrow
     THEN [Idle EXCEPT !.pc = "settled", !.m = m, !.args = args,
                       !.trace = ran.trace, !.outcome = Rejected(ran.thrown)]
     ELSE [Idle EXCEPT !.pc = "streaming", !.m = m, !.args = args,
                       !.trace = ran.trace, !.q0 = q0]]

\* the caller may invoke a method on a constructed adapter
Ready(c) ==
  /\ adapter # NotConstructed
  /\ invoked < MaxCalls
  /\ calls[c].pc = "idle"

\* a method is invoked: its synchronous prefix runs
Invoked(c, m, args, ran) ==
  /\ calls' = Started(c, m, args, ran)
  /\ invoked' = invoked + 1
  /\ wire' = wire + Len(Dispatches(ran.trace))

InvokedStream(c, m, args, ran, q0) ==
  /\ calls' = StartedStream(c, m, args, ran, q0)
  /\ invoked' = invoked + 1
  /\ wire' = wire + Len(Dispatches(ran.trace))

\* the caller constructs its adapters, with a logger of the given kinds
ConstructWith(loggers) ==
  /\ adapter = NotConstructed
  /\ \E name \in Names, options \in [requestLogger : loggers] :
       LET resource == MotorClientConstructor(Robot, name, options)
           app == AppClientConstructor(Transport)
           billing == BillingClientConstructor(Transport)
           data == DataClientConstructor(Transport)
       IN  /\ adapter' = resource.self
           /\ services' = [app |-> app.self, billing |-> billing.self,
                           data |-> data.self]
           /\ wire' = wire + Len(Dispatches(resource.trace \o app.trace \o
                                            billing.trace \o data.trace))
  /\ UNCHANGED <<calls, queue, invoked>>

Construct == ConstructWith(Loggers)

ConstructAnyLogger == ConstructWith(AnyLoggers)

SetPower ==
  \E c \in DOMAIN calls :
    /\ Ready(c)
    /\ \E power \in Powers, extra \in ExtraArgs :
         Invoked(c, "Motor.setPower",
                 [power |-> power, extra |-> extra],
                 SetPowerCall(adapter, power, extra))
    /\ UNCHANGED <<handles, queue>>

SetPowerPb ==
  \E c \in DOMAIN calls :
    /\ Ready(c)
    /\ \E power \in Powers, extra \in ExtraArgs :
         Invoked(c, "MotorPb.setPower",
                 [power |-> power, extra |-> extra],
                 SetPowerPbCall(adapter, power, extra))
    /\ UNCHANGED <<handles, queue>>

\* mutant: stop drops the logger of the handle once it has run
StopClearsLogger ==
  \E c \in DOMAIN calls :
    /\ Ready(c)
    /\ \E extra \in ExtraArgs :
         Invoked(c, "Motor.stop", [extra |-> extra],
                 StopCall(adapter, extra))
    /\ adapter' = [adapter EXCEPT !.options.requestLogger = "absent"]
    /\ UNCHANGED <<services, queue>>

Stop ==
  \E c \in DOMAIN calls :
    /\ Ready(c)
    /\ \E extra \in ExtraArgs :
         Invoked(c, "Motor.stop", [extra |-> extra],
                 StopCall(adapter, extra))
    /\ UNCHANGED <<handles, queue>>

IsPowered ==
  \E c \in DOMAIN calls :
    /\ Ready(c)
    /\ \E extra \in ExtraArgs :
         Invoked(c, "Motor.isPowered", [extra |-> extra],
                 IsPoweredCall(adapter, extra))
    /\ UNCHANGED <<handles, queue>>

GetMode ==
  \E c \in DOMAIN calls :
    /\ Ready(c)
    /\ \E extra \in ExtraArgs :
         Invoked(c, "Navigation.getMode", [extra |-> extra],
                 GetModeCall(adapter, extra))
    /\ UNCHANGED <<handles, queue>>

GetReadings ==
  \E c \in DOMAIN calls :
    /\ Ready(c)
    /\ \E extra \in ExtraArgs :
         Invoked(c, "Sensor.getReadings", [extra |-> extra],
                 GetReadingsCall(adapter, extra))
    /\ UNCHANGED <<handles, queue>>

GantryGetPosition ==
  \E c \in DOMAIN calls :
    /\ Ready(c)
    /\ \E extra \in ExtraArgs :
         Invoked(c, "Gantry.getPosition", [extra |-> extra],
                 GantryGetPositionCall(adapter, extra))
    /\ UNCHANGED <<handles, queue>>

MoveToPosition ==
  \E c \in DOMAIN calls :
    /\ Ready(c)
    /\ \E positionsMm \in {<<10, 20>>}, speedsMmPerSec \in {<<1, 1>>},
          extra \in ExtraArgs :
         Invoked(c, "Gantry.moveToPosition",
                 [positionsMm |-> positionsMm,
                  speedsMmPerSec |-> speedsMmPerSec, extra |-> extra],
                 MoveToPositionCall(adapter, positionsMm, speedsMmPerSec,
                                    extra))
    /\ UNCHANGED <<handles, queue>>

GetLocation ==
  \E c \in DOMAIN calls :
    /\ Ready(c)
    /\ \E extra \in ExtraArgs :
         Invoked(c, "Navigation.getLocation", [extra |-> extra],
                 GetLocationCall(adapter, extra))
    /\ UNCHANGED <<handles, queue>>

GetPose ==
  \E c \in DOMAIN calls :
    /\ Ready(c)
    /\ \E componentName \in {[namespace |-> "rdk", type |-> "component",
                               subtype |-> "arm", name |-> "arm-1"]},
          destinationFrame \in {"world", "arm"}, extra \in ExtraArgs :
         Invoked(c, "Motion.getPose",
                 [componentName |-> componentName,
                  destinationFrame |-> destinationFrame,
                  supplementalTransforms |-> <<>>, extra |-> extra],
                 GetPoseCall(adapter, componentName, destinationFrame, <<>>,
                             extra))
    /\ UNCHANGED <<handles, queue>>

MotorDoCommand ==
  \E c \in DOMAIN calls :
    /\ Ready(c)
    /\ \E command \in Structs :
         Invoked(c, "Motor.doCommand", [command |-> command],
                 MotorDoCommandCall(adapter, command))
    /\ UNCHANGED <<handles, queue>>

TabularDataCaptureUpload ==
  \E c \in DOMAIN calls :
    /\ Ready(c)
    /\ \E tabularData \in TabularRows, dataRequestTimes \in RequestTimes,
          tags \in TagArgs :
         Invoked(c, "Data.tabularDataCaptureUpload",
                 [tabularData |-> tabularData,
                  dataRequestTimes |-> dataRequestTimes,
                  tags |-> tags],
                 TabularDataCaptureUploadCall(
                   tabularData, "part-1", "sensor", "s1", "Readings",
                   dataRequestTimes, tags))
    /\ UNCHANGED <<handles, queue>>

TabularDataByFilter ==
  \E c \in DOMAIN calls :
    /\ Ready(c)
    /\ \E filter \in DataFilters, limit \in Limits, sortOrder \in SortOrders :
         Invoked(c, "Data.tabularDataByFilter",
                 [filter |-> filter, limit |-> limit, sortOrder |-> sortOrder],
                 TabularDataByFilterCall(filter, limit, sortOrder, Undefined,
                                         Undefined, Undefined))
    /\ UNCHANGED <<handles, queue>>

BinaryDataByFilter ==
  \E c \in DOMAIN calls :
    /\ Ready(c)
    /\ \E filter \in DataFilters, limit \in Limits, sortOrder \in SortOrders :
         Invoked(c, "Data.binaryDataByFilter",
                 [filter |-> filter, limit |-> limit, sortOrder |-> sortOrder],
                 BinaryDataByFilterCall(filter, limit, sortOrder, Undefined,
                                        Undefined, Undefined, Undefined))
    /\ UNCHANGED <<handles, queue>>

\* a synchronous method has returned when the call is over
CreateFilter ==
  \E c \in DOMAIN calls :
    /\ Ready(c)
    /\ \E options \in FilterOptions :
         LET ran == CreateFilterCall(options)
         IN  /\ calls' = [calls EXCEPT ![c] =
                            [Idle EXCEPT !.pc = "settled",
                                         !.m = "Data.createFilter",
                                         !.args = options,
                                         !.trace = ran.trace,
                                         !.outcome = ran.returned]]
             /\ invoked' = invoked + 1
             /\ wire' = wire + Len(Dispatches(ran.trace))
    /\ UNCHANGED <<handles, queue>>

GetPointCloudMap ==
  \E c \in DOMAIN calls :
    /\ Ready(c)
    /\ \E returnEditedMap \in OptionalBools :
         InvokedStream(c, "Slam.getPointCloudMap",
                       [returnEditedMap |-> returnEditedMap],
                       GetPointCloudMapCall(adapter, returnEditedMap),
                       <<>>)
    /\ UNCHANGED <<handles, queue>>

GetInternalState ==
  \E c \in DOMAIN calls :
    /\ Ready(c)
    /\ InvokedStream(c, "Slam.getInternalState", Undefined,
                     GetInternalStateCall(adapter), <<>>)
    /\ UNCHANGED <<handles, queue>>

GetInvoicePdf ==
  \E c \in DOMAIN calls :
    /\ Ready(c)
    /\ \E id \in {"inv-1", "inv-2"}, orgId \in {"org-1"} :
         InvokedStream(c, "Billing.getInvoicePdf",
                       [id |-> id, orgId |-> orgId],
                       GetInvoicePdfCall(id, orgId), <<>>)
    /\ UNCHANGED <<handles, queue>>

\* the caller supplies the queue, with the content it has at the call
TailRobotPartLogs ==
  \E c \in DOMAIN calls :
    /\ Ready(c)
    /\ \E id \in {"part-1"}, q0 \in InitialLogQueues,
          filter \in OptionalFilters, errorsOnly \in OptionalBools :
         /\ InvokedStream(c, "App.tailRobotPartLogs",
                          [id |-> id, filter |-> filter,
                           errorsOnly |-> errorsOnly],
                          TailRobotPartLogsCall(id, filter,
                                                errorsOnly),
                          q0)
         /\ queue' = q0
    /\ UNCHANGED handles

StreamTicks ==
  \E c \in DOMAIN calls :
    /\ Ready(c)
    /\ \E interrupts \in {<<"pin-1", "pin-2">>}, q0 \in InitialTickQueues,
          extra \in ExtraArgs :
         /\ InvokedStream(c, "Board.streamTicks",
                          [interrupts |-> interrupts,
                           extra |-> extra],
                          StreamTicksCall(adapter, interrupts, extra),
                          q0)
         /\ queue' = q0
    /\ UNCHANGED handles

RECURSIVE DeliveredIn(_)
\* the number of chunks delivered to the calls of the given slots
DeliveredIn(slots) ==
  IF slots = {} THEN 0
  ELSE LET c == CHOOSE x \in slots : TRUE
       IN  Len(calls[c].delivered) + DeliveredIn(slots \ {c})

\* an operation of the object-literal variant is called
BoardOperation ==
  \E c \in DOMAIN calls :
    /\ Ready(c)
    /\ \E op \in BoardUnaryOperations :
         \E args \in BoardArgs(op) :
           Invoked(c, BoardMethod[op][1], args, BoardCall(adapter, op, args))
    /\ UNCHANGED <<handles, queue>>

\* an operation of the message-class variant is called
BoardPbOperation ==
  \E c \in DOMAIN calls :
    /\ Ready(c)
    /\ \E op \in BoardUnaryOperations :
         \E args \in BoardArgs(op) :
           Invoked(c, BoardMethod[op][2], args, BoardPbCall(adapter, op, args))
    /\ UNCHANGED <<handles, queue>>

\* the caller makes the same streaming call once per slot, in one
\* synchronous block and with the same queue: every prefix runs before the
\* first chunk is delivered
InvokedTogether(m, args, ran, q0) ==
  /\ adapter # NotConstructed
  /\ \A c \in DOMAIN calls : calls[c].pc = "idle"
  /\ invoked + Cardinality(DOMAIN calls) <= MaxCalls
  /\ calls' = [c \in DOMAIN calls |-> StartedStream(c, m, args, ran, q0)[c]]
  /\ invoked' = invoked + Cardinality(DOMAIN calls)
  /\ wire' = wire + Cardinality(DOMAIN calls) * Len(Dispatches(ran.trace))
  /\ queue' = q0

TailRobotPartLogsTogether ==
  /\ \E id \in {"part-1"}, q0 \in InitialLogQueues,
        filter \in {Undefined}, errorsOnly \in {Undefined} :
       InvokedTogether("App.tailRobotPartLogs",
                       [id |-> id, filter |-> filter,
                        errorsOnly |-> errorsOnly],
                       TailRobotPartLogsCall(id, filter, errorsOnly), q0)
  /\ UNCHANGED handles

StreamTicksTogether ==
  /\ \E interrupts \in {<<"pin-1", "pin-2">>}, q0 \in InitialTickQueues,
        extra \in ExtraArgs :
       InvokedTogether("Board.streamTicks",
                       [interrupts |-> interrupts, extra |-> extra],
                       StreamTicksCall(adapter, interrupts, extra), q0)
  /\ UNCHANGED handles

\* the state of a call of the event-listener variant once its listeners are
\* registered and its promise is returned
StartedListening(c, m, args, ran, q0) ==
  [calls EXCEPT ![c] =
     IF ran.thrown # NoThrow
     THEN [Idle EXCEPT !.pc = "settled", !.m = m, !.args = args,
                       !.trace = ran.trace, !.outcome = Rejected(ran.thrown)]
     ELSE [Idle EXCEPT !.pc = "listening", !.m = m, !.args = args,
                       !.trace = ran.trace, !.q0 = q0,
                       !.chan = [t |-> "open", events |-> <<>>]]]

StreamTicksPb ==
  \E c \in DOMAIN calls :
    /\ Ready(c)
    /\ \E interrupts \in {<<"pin-1", "pin-2">>}, q0 \in InitialTickQueues,
          extra \in ExtraArgs :
         LET ran == StreamTicksPbCall(adapter, interrupts, extra)
         IN  /\ calls' = StartedListening(c, "BoardPb.streamTicks",
                                          [interrupts |-> interrupts,
                                           extra |-> extra],
                                          ran, q0)
             /\ invoked' = invoked + 1
             /\ wire' = wire + Len(Dispatches(ran.trace))
             /\ queue' = q0
    /\ UNCHANGED handles

\* the events of an open stream, in arrival order
StreamEvent(on, arg) == [on |-> on, arg |-> arg]
Arrived(c, on) ==
  {i \in DOMAIN calls[c].chan.events : calls[c].chan.events[i].on = on}

\* the stream emits 'data'
StreamOnData ==
  \E c \in DOMAIN calls :
    /\ calls[c].pc = "listening"
    /\ DeliveredIn(DOMAIN calls) < MaxChunks
    /\ \E response \in Ticks :
         /\ calls' = [calls EXCEPT
                        ![c].delivered = Append(@, response),
                        ![c].chan.events =
                          Append(@, StreamEvent("data", response))]
         /\ queue' = StreamTicksPbOnData(queue, response)
    /\ UNCHANGED <<handles, counters>>

\* the stream emits 'status', once, before or after its 'end'
StreamOnStatus ==
  \E c \in DOMAIN calls :
    /\ calls[c].m = "BoardPb.streamTicks"
    /\ calls[c].chan.t = "open"
    /\ calls[c].pc \in {"listening", "settled"}
    /\ Arrived(c, "status") = {}
    /\ \E status \in Statuses :
         calls' = [calls EXCEPT
                     ![c].chan.events =
                       Append(@, StreamEvent("status", status)),
                     ![c].outcome = StreamTicksPbOnStatus(@, status)]
    /\ UNCHANGED <<handles, queue, counters>>

\* the stream emits 'end': no 'data' follows it
StreamOnEnd ==
  \E c \in DOMAIN calls :
    /\ calls[c].pc = "listening"
    /\ \E end \in EndArgs :
         calls' = [calls EXCEPT
                     ![c].pc = "settled",
                     ![c].chan.events = Append(@, StreamEvent("end", end)),
                     ![c].outcome = StreamTicksPbOnEnd(@, end)]
    /\ UNCHANGED <<handles, queue, counters>>

\* mutant: the chunk array is shared by the streaming calls of a method
StreamChunkShared ==
  \E c \in DOMAIN calls :
    /\ calls[c].pc = "streaming"
    /\ DeliveredIn(DOMAIN calls) < MaxChunks
    /\ \E chunk \in StreamChunks(calls[c].m) :
         /\ calls' =
              [d \in DOMAIN calls |->
                 IF d = c
                 THEN [calls[d] EXCEPT
                         !.delivered = Append(@, chunk),
                         !.chunks = ChunksAfter(calls[c].m, @, chunk)]
                 ELSE IF calls[d].pc = "streaming" /\ calls[d].m = calls[c].m
                      THEN [calls[d] EXCEPT
                              !.chunks = ChunksAfter(calls[c].m, @, chunk)]
                      ELSE calls[d]]
         /\ queue' = QueueAfter(calls[c].m, queue, chunk)
    /\ UNCHANGED <<handles, counters>>

\* the transport delivers a chunk and the loop body runs on it
StreamChunk ==
  \E c \in DOMAIN calls :
    /\ calls[c].pc = "streaming"
    /\ DeliveredIn(DOMAIN calls) < MaxChunks
    /\ \E chunk \in StreamChunks(calls[c].m) :
         /\ calls' = [calls EXCEPT
                        ![c].delivered = Append(@, chunk),
                        ![c].chunks = ChunksAfter(calls[c].m, @, chunk)]
         /\ queue' = QueueAfter(calls[c].m, queue, chunk)
    /\ UNCHANGED <<handles, counters>>

\* the transport signals the end of the stream: the pending next() of the
\* iterator resolves as done
StreamEnd ==
  \E c \in DOMAIN calls :
    /\ calls[c].pc = "streaming"
    /\ calls' = [calls EXCEPT ![c].pc = "resuming",
                              ![c].chan = [t |-> "end"]]
    /\ UNCHANGED <<handles, queue, counters>>

\* the transport fails the stream: the pending next() of the iterator rejects
StreamFail ==
  \E c \in DOMAIN calls :
    /\ calls[c].pc = "streaming"
    /\ \E error \in ChannelErrors :
         calls' = [calls EXCEPT ![c].pc = "resuming",
                                ![c].chan = [t |-> "failed", err |-> error]]
    /\ UNCHANGED <<handles, queue, counters>>

\* the settlement of a streaming method once its loop is left, by what the
\* iterator reported
\* mutant: a stream that ends leaves the method waiting for a further chunk
StreamLeaveLoopAwaitsMore(m, chunks, chan) ==
  IF chan.t = "end" THEN Pending ELSE ForAwaitThrows(chan.err)

\* mutant: a stream that fails makes the method return what it has so far
StreamLeaveLoopReturnsPartial(m, chunks, chan) == StreamReturn(m, chunks)

StreamLeaveLoop(m, chunks, chan) ==
  IF chan.t = "end" THEN StreamReturn(m, chunks) ELSE ForAwaitThrows(chan.err)

\* the method resumes from its for-await and leaves the loop
StreamSettle ==
  \E c \in DOMAIN calls :
    /\ calls[c].pc = "resuming"
    /\ calls' = [calls EXCEPT
                   ![c].pc = "settled",
                   ![c].outcome = StreamLeaveLoop(calls[c].m, calls[c].chunks,
                                                  calls[c].chan)]
    /\ UNCHANGED <<handles, queue, counters>>

\* the channel answers a unary call and the method resumes
UnaryResolve ==
  \E c \in DOMAIN calls :
    /\ calls[c].pc = "awaiting"
    /\ \E response \in Responses(calls[c].m) :
         calls' = [calls EXCEPT ![c].pc = "settled",
                                ![c].chan = [t |-> "ok", resp |-> response],
                                ![c].outcome = Resume(calls[c].m, response)]
    /\ UNCHANGED <<handles, queue, counters>>

\* the channel fails a unary call and the await throws
UnaryReject ==
  \E c \in DOMAIN calls :
    /\ calls[c].pc = "awaiting"
    /\ \E error \in ChannelErrors :
         calls' = [calls EXCEPT ![c].pc = "settled",
                                ![c].chan = [t |-> "failed", err |-> error],
                                ![c].outcome = AwaitThrows(error)]
    /\ UNCHANGED <<handles, queue, counters>>

\* the caller has observed the settlement and makes its next call
Return ==
  \E c \in DOMAIN calls :
    /\ calls[c].pc = "settled"
    /\ calls' = [calls EXCEPT ![c] = Idle]
    /\ queue' = <<>>
    /\ UNCHANGED <<handles, counters>>

\* the caller has awaited the calls it made together (Promise.all)
Join ==
  /\ \E c \in DOMAIN calls : calls[c].pc = "settled"
  /\ \A c \in DOMAIN calls : calls[c].pc \in {"idle", "settled"}
  /\ calls' = [c \in DOMAIN calls |-> Idle]
  /\ queue' = <<>>
  /\ UNCHANGED <<handles, counters>>

Init ==
  /\ adapter = NotConstructed
  /\ services = NotConstructed
  /\ calls = [c \in {1} |-> Idle]
  /\ queue = <<>>
  /\ invoked = 0
  /\ wire = 0

Next ==
  \/ Construct
  \/ SetPower
  \/ SetPowerPb
  \/ Stop
  \/ IsPowered
  \/ GetMode
  \/ GetReadings
  \/ GantryGetPosition
  \/ MoveToPosition
  \/ GetLocation
  \/ GetPose
  \/ MotorDoCommand
  \/ TabularDataCaptureUpload
  \/ TabularDataByFilter
  \/ BinaryDataByFilter
  \/ CreateFilter
  \/ GetPointCloudMap
  \/ GetInternalState
  \/ GetInvoicePdf
  \/ TailRobotPartLogs
  \/ StreamTicks
  \/ StreamTicksPb
  \/ StreamChunk
  \/ StreamEnd
  \/ StreamFail
  \/ StreamSettle
  \/ StreamOnData
  \/ StreamOnStatus
  \/ StreamOnEnd
  \/ UnaryResolve
  \/ UnaryReject
  \/ Return

Spec == Init /\ [][Next]_vars

(***************************************************************************)
(* A caller that keeps two calls in flight on the same adapters.           *)
(***************************************************************************)
InitConcurrent ==
  /\ adapter = NotConstructed
  /\ services = NotConstructed
  /\ calls = [c \in {1, 2} |-> Idle]
  /\ queue = <<>>
  /\ invoked = 0
  /\ wire = 0

NextConcurrent ==
  \/ Construct
  \/ SetPower
  \/ IsPowered
  \/ GetInvoicePdf
  \/ StreamChunk
  \/ StreamEnd
  \/ StreamFail
  \/ StreamSettle
  \/ UnaryResolve
  \/ UnaryReject
  \/ Return

SpecConcurrent == InitConcurrent /\ [][NextConcurrent]_vars

(***************************************************************************)
(* Unary methods on adapters whose logger may write to its argument.       *)
(***************************************************************************)
NextLoggers ==
  \/ ConstructAnyLogger
  \/ SetPower
  \/ SetPowerPb
  \/ MotorDoCommand
  \/ UnaryResolve
  \/ UnaryReject
  \/ Return

SpecLoggers == Init /\ [][NextLoggers]_vars

(***************************************************************************)
(* The streaming methods alone.  A method suspended in its for-await is    *)
(* resumed once the iterator has reported: the continuation of a settled   *)
(* promise is a job of the microtask queue, which runs every job.          *)
(***************************************************************************)
NextStreams ==
  \/ Construct
  \/ GetPointCloudMap
  \/ GetInternalState
  \/ GetInvoicePdf
  \/ TailRobotPartLogs
  \/ StreamTicks
  \/ StreamChunk
  \/ StreamEnd
  \/ StreamFail
  \/ StreamSettle
  \/ Return

SpecStreams == Init /\ [][NextStreams]_vars /\ WF_vars(StreamSettle)

(***************************************************************************)
(* A caller that keeps two queue-appending calls in flight on one queue    *)
(* and awaits them together.                                               *)
(***************************************************************************)
NextSharedQueue ==
  \/ Construct
  \/ TailRobotPartLogsTogether
  \/ StreamTicksTogether
  \/ StreamChunk
  \/ StreamEnd
  \/ StreamFail
  \/ StreamSettle
  \/ Join

SpecSharedQueue == InitConcurrent /\ [][NextSharedQueue]_vars

(***************************************************************************)
(* The operations of the Board interface, on either variant of BoardClient.*)
(***************************************************************************)
NextBoards ==
  \/ Construct
  \/ BoardOperation
  \/ BoardPbOperation
  \/ StreamTicks
  \/ StreamTicksPb
  \/ StreamEnd
  \/ StreamSettle
  \/ StreamOnEnd
  \/ UnaryResolve
  \/ UnaryReject
  \/ Return

SpecBoards == Init /\ [][NextBoards]_vars

(***************************************************************************)
(* Properties.                                                             *)
(***************************************************************************)
RECURSIVE Flatten(_)
\* s1 ++ s2 ++ ... ++ sn
Flatten(seqs) ==
  IF seqs = <<>> THEN <<>> ELSE Head(seqs) \o Flatten(Tail(seqs))

\* the byte array a delivered chunk of a byte stream carries
BytesOf(chunk) ==
  IF "pointCloudPcdChunk" \in DOMAIN chunk THEN chunk.pointCloudPcdChunk
  ELSE IF "internalStateChunk" \in DOMAIN chunk THEN chunk.internalStateChunk
  ELSE chunk.chunk

\* the entries a delivered chunk of a queue stream carries
EntriesOf(chunk) == IF "logs" \in DOMAIN chunk THEN chunk.logs ELSE <<chunk>>

MapSeq(Op(_), seq) == [i \in DOMAIN seq |-> Op(seq[i])]

Positions(trace, ev) == {i \in DOMAIN trace : trace[i].ev = ev}

\* C1: on an adapter constructed with a requestLogger, every method call
\* invokes the logger exactly once, before the call is dispatched, and with
\* the request value that is dispatched.
C1_LoggedOnceBeforeDispatch ==
  \A c \in DOMAIN calls :
    (/\ calls[c].pc # "idle"
     /\ calls[c].m \in MethodsWithOptions
     /\ adapter.options.requestLogger # "absent")
    => LET trace == calls[c].trace
       IN  /\ Cardinality(Positions(trace, "log")) = 1
           /\ Positions(trace, "dispatch") # {}
           /\ \A j \in Positions(trace, "dispatch") :
                \E i \in Positions(trace, "log") :
                  i < j /\ trace[i].req = trace[j].req

C1_Witness ==
  \E c \in DOMAIN calls :
    /\ calls[c].m \in {"Motor.setPower", "Slam.getPointCloudMap"}
    /\ calls[c].pc = "settled"
    /\ adapter.options.requestLogger = "returns"
    /\ Len(calls[c].trace) = 2

\* C2: when the channel fails a unary call, the method rejects with that
\* same failure, one remote call was issued for it, and no value is returned.
C2_ChannelFailurePropagates ==
  \A c \in DOMAIN calls :
    (calls[c].m \in UnaryMethods /\ calls[c].chan.t = "failed")
    => /\ calls[c].outcome = Rejected(calls[c].chan.err)
       /\ Len(Dispatches(calls[c].trace)) = 1

C2_Witness ==
  \E c \in DOMAIN calls :
    /\ calls[c].m = "Gantry.getPosition"
    /\ calls[c].chan.t = "failed"
    /\ calls[c].outcome.t = "rejected"

\* C3: a byte-accumulating stream that ends returns the concatenation of the
\* delivered chunks in delivery order; its length is the sum of the chunk
\* lengths, and it is empty when no chunk was delivered.
C3_BufferIsConcatenation ==
  \A c \in DOMAIN calls :
    (/\ calls[c].m \in ByteStreamMethods
     /\ calls[c].chan.t = "end"
     /\ calls[c].pc = "settled")
    => LET parts == MapSeq(BytesOf, calls[c].delivered)
       IN  /\ calls[c].outcome.t = "resolved"
           /\ calls[c].outcome.value.bytes = Flatten(parts)
           /\ Len(calls[c].outcome.value.bytes) = SumLengths(parts)
           /\ parts = <<>> => calls[c].outcome.value.bytes = <<>>

C3_Witness ==
  \E c \in DOMAIN calls :
    /\ calls[c].m = "Billing.getInvoicePdf"
    /\ calls[c].chan.t = "end"
    /\ calls[c].pc = "settled"
    /\ MapSeq(BytesOf, calls[c].delivered) = <<<<1>>, <<>>, <<2, 0>>>>
    /\ calls[c].outcome.value.bytes = <<1, 2, 0>>

\* C4: once the stream of a queue-appending call has ended, the caller's
\* queue is its content at the call followed by the delivered entries in
\* delivery order (the logs of a chunk in their order in the chunk).
C4_QueueHoldsDeliveredInOrder ==
  \A c \in DOMAIN calls :
    (/\ calls[c].m \in QueueStreamMethods
     /\ calls[c].chan.t = "end"
     /\ calls[c].pc = "settled")
    => /\ queue = calls[c].q0 \o Flatten(MapSeq(EntriesOf, calls[c].delivered))
       /\ calls[c].outcome = Resolved(Undefined)

C4_Witness ==
  \E c \in DOMAIN calls :
    /\ calls[c].m = "App.tailRobotPartLogs"
    /\ calls[c].chan.t = "end"
    /\ calls[c].pc = "settled"
    /\ queue = <<"log-old", "log-b", "log-c", "log-a">>

\* C5: doCommand with command c on an adapter bound to name n dispatches
\* exactly one DoCommand request, whose name is n and whose command is c.
C5_DoCommandEnvelope ==
  \A c \in DOMAIN calls :
    calls[c].m = "Motor.doCommand"
    => Dispatches(calls[c].trace) =
         <<DispatchEvent("MotorService.DoCommand",
                         [name |-> adapter.name,
                          command |-> calls[c].args.command])>>

C5_Witness ==
  \E c \in DOMAIN calls :
    /\ calls[c].m = "Motor.doCommand"
    /\ calls[c].args.command = [fields |-> [foo |-> 1]]
    /\ Len(Dispatches(calls[c].trace)) = 1

\* C6: doCommand resolves with {} when the successful response carries no
\* result, and with the JSON form of the result otherwise.
C6_DoCommandResult ==
  \A c \in DOMAIN calls :
    (calls[c].m = "Motor.doCommand" /\ calls[c].chan.t = "ok")
    => LET result == calls[c].chan.resp.result
       IN  /\ calls[c].outcome.t = "resolved"
           /\ result = Undefined
                => calls[c].outcome.value.json = EmptyObject
           /\ result # Undefined
                => calls[c].outcome.value.json = result.fields

C6_Witness ==
  \E c \in DOMAIN calls :
    /\ calls[c].m = "Motor.doCommand"
    /\ calls[c].chan.t = "ok"
    /\ calls[c].chan.resp.result = Undefined
    /\ calls[c].outcome.t = "resolved"

\* C7: getLocation rejects with the local error 'no location' when the
\* remote call succeeded and the response has no location, after exactly
\* one remote call.
C7_NoLocation ==
  \A c \in DOMAIN calls :
    (/\ calls[c].m = "Navigation.getLocation"
     /\ calls[c].chan.t = "ok"
     /\ calls[c].chan.resp.location = Undefined)
    => /\ calls[c].outcome = Rejected(LocalError("no location"))
       /\ Len(Dispatches(calls[c].trace)) = 1

C7_Witness ==
  \E c \in DOMAIN calls :
    /\ calls[c].m = "Navigation.getLocation"
    /\ calls[c].chan.t = "ok"
    /\ calls[c].chan.resp.location = Undefined
    /\ calls[c].outcome.t = "rejected"

\* a coordinate that is a number and not NaN
NumericCoordinate(value) == value.t = "number" /\ ~ value.nan

\* C8: getLocation rejects with 'invalid location' when the location is
\* present and its latitude or longitude is not a number or is NaN, and it
\* returns the response only when the location is present with numeric,
\* non-NaN latitude and longitude.
C8_InvalidLocation ==
  \A c \in DOMAIN calls :
    (calls[c].m = "Navigation.getLocation" /\ calls[c].chan.t = "ok")
    => LET location == calls[c].chan.resp.location
           valid == /\ location # Undefined
                    /\ NumericCoordinate(location.latitude)
                    /\ NumericCoordinate(location.longitude)
       IN  /\ (location # Undefined /\ ~ valid)
                => calls[c].outcome = Rejected(LocalError("invalid location"))
           /\ calls[c].outcome.t = "resolved" <=> valid
           /\ valid => calls[c].outcome.value.resp = calls[c].chan.resp

C8_Witness ==
  \E c \in DOMAIN calls :
    /\ calls[c].m = "Navigation.getLocation"
    /\ calls[c].chan.t = "ok"
    /\ calls[c].chan.resp.location # Undefined
    /\ calls[c].chan.resp.location.latitude = Num(7)
    /\ calls[c].chan.resp.location.longitude = NaN
    /\ calls[c].outcome.t = "rejected"

\* C9: tabularDataCaptureUpload rejects with 'dataRequestTimes and data
\* lengths must be equal.' when the two lists differ in length, and
\* dispatches no remote call for that invocation.
C9_LengthMismatchRejected ==
  \A c \in DOMAIN calls :
    (/\ calls[c].m = "Data.tabularDataCaptureUpload"
     /\ Len(calls[c].args.dataRequestTimes) # Len(calls[c].args.tabularData))
    => /\ calls[c].outcome = Rejected(LocalError(
            "dataRequestTimes and data lengths must be equal."))
       /\ calls[c].trace = <<>>
       /\ calls[c].chan = NoAnswer

C9_Witness ==
  \E c \in DOMAIN calls :
    /\ calls[c].m = "Data.tabularDataCaptureUpload"
    /\ Len(calls[c].args.dataRequestTimes) = 2
    /\ Len(calls[c].args.tabularData) = 1
    /\ calls[c].pc = "settled"

\* C10: setPower(p) without an extension map on an adapter bound to name n
\* dispatches exactly one request {name: n, powerPct: p, extra: {}}, and
\* resolves without a value when the remote call succeeds.
C10_SetPowerRequest ==
  \A c \in DOMAIN calls :
    (/\ calls[c].m \in {"Motor.setPower", "MotorPb.setPower"}
     /\ calls[c].args.extra = Undefined)
    => /\ Dispatches(calls[c].trace) =
            <<DispatchEvent("MotorService.SetPower",
                            [name |-> adapter.name,
                             powerPct |-> calls[c].args.power,
                             extra |-> [fields |-> EmptyObject]])>>
       /\ calls[c].chan.t = "ok" => calls[c].outcome = Resolved(Undefined)

C10_Witness ==
  \E c \in DOMAIN calls :
    /\ calls[c].m = "Motor.setPower"
    /\ adapter.name = "motor-1"
    /\ calls[c].args = [power |-> 50, extra |-> Undefined]
    /\ calls[c].chan.t = "ok"
    /\ calls[c].outcome.t = "resolved"

\* the methods that take an extension map
ExtraMethods ==
  {"Motor.setPower", "MotorPb.setPower", "Motor.stop", "Gantry.getPosition",
   "Navigation.getMode", "Navigation.getLocation", "Motion.getPose",
   "Board.streamTicks"}

\* the synchronous prefix of a method of an adapter with options, on the
\* given handle with the given arguments
PrefixOf(m, self, args) ==
  CASE m = "Motor.setPower" -> SetPowerCall(self, args.power, args.extra)
    [] m = "MotorPb.setPower" -> SetPowerPbCall(self, args.power, args.extra)
    [] m = "Motor.stop" -> StopCall(self, args.extra)
    [] m = "Gantry.getPosition" -> GantryGetPositionCall(self, args.extra)
    [] m = "Navigation.getMode" -> GetModeCall(self, args.extra)
    [] m = "Navigation.getLocation" -> GetLocationCall(self, args.extra)
    [] m = "Board.streamTicks" ->
         StreamTicksCall(self, args.interrupts, args.extra)
    [] m = "Motor.isPowered" -> IsPoweredCall(self, args.extra)
    [] m = "Motion.getPose" ->
         GetPoseCall(self, args.componentName, args.destinationFrame,
                     args.supplementalTransforms, args.extra)
    [] m = "Motor.doCommand" -> MotorDoCommandCall(self, args.command)
    [] m = "Gantry.moveToPosition" ->
         MoveToPositionCall(self, args.positionsMm, args.speedsMmPerSec,
                            args.extra)
    [] m = "Slam.getPointCloudMap" ->
         GetPointCloudMapCall(self, args.returnEditedMap)
    [] m = "Slam.getInternalState" -> GetInternalStateCall(self)

\* C11: a call of a method that takes an extension map, made with the map
\* omitted, dispatches the requests that the same call made with an empty
\* map dispatches, and the other way round: the resource name is the bound
\* name, the typed fields are equal and extra is the empty structure.
C11_OmittedExtraIsEmptyExtra ==
  \A c \in DOMAIN calls :
    (/\ calls[c].pc # "idle"
     /\ calls[c].m \in ExtraMethods
     /\ calls[c].args.extra \in {Undefined, EmptyObject})
    => LET other == IF calls[c].args.extra = Undefined THEN EmptyObject
                    ELSE Undefined
           twin == PrefixOf(calls[c].m, adapter,
                            [calls[c].args EXCEPT !.extra = other])
           sent == Dispatches(calls[c].trace)
       IN  /\ sent = Dispatches(twin.trace)
           /\ Len(sent) = 1
           /\ sent[1].req.name = adapter.name
           /\ sent[1].req.extra = [fields |-> EmptyObject]

C11_Witness ==
  \E c \in DOMAIN calls :
    /\ calls[c].m = "Motor.stop"
    /\ calls[c].args.extra = Undefined
    /\ calls[c].pc = "awaiting"
    /\ Dispatches(calls[c].trace)[1].req.extra = [fields |-> EmptyObject]

\* C12: constructing the adapters issues no remote call: while no adapter
\* method has been invoked, no call has been dispatched on the channel.
C12_ConstructionIssuesNoCall ==
  (adapter # NotConstructed /\ invoked = 0) => wire = 0

C12_Witness ==
  /\ adapter # NotConstructed
  /\ services # NotConstructed
  /\ invoked = 0
  /\ wire = 0

\* C13: no method changes the state an adapter owns: once constructed, the
\* resource name, the channel stubs and the options of the handles stay the
\* values the constructors set, through every step of every call.
C13_HandlesNeverChange ==
  [][adapter # NotConstructed => handles' = handles]_vars

C13_Witness ==
  \E c \in DOMAIN calls :
    /\ adapter = MotorClientConstructor(Robot, "nav-2",
                                        [requestLogger |-> "returns"]).self
    /\ services.data = DataClientConstructor(Transport).self
    /\ invoked = MaxCalls
    /\ calls[c].m = "Board.streamTicks"
    /\ calls[c].chan.t = "failed"
    /\ Len(calls[c].delivered) = 2

\* C14: with two calls in flight on one adapter, in every interleaving of
\* their dispatches and completions each call dispatches the one request
\* built from its own arguments, and settles with the projection of the
\* response, or of the chunks, delivered to it.
C14_ConcurrentCallsIndependent ==
  \A c \in DOMAIN calls :
    LET call == calls[c]
        sent == Dispatches(call.trace)
    IN  /\ call.m = "Motor.setPower"
             => /\ Len(sent) = 1
                /\ sent[1].rpc = "MotorService.SetPower"
                /\ sent[1].req.name = adapter.name
                /\ sent[1].req.powerPct = call.args.power
                /\ call.chan.t = "ok" => call.outcome = Resolved(Undefined)
        /\ call.m = "Motor.isPowered"
             => /\ Len(sent) = 1
                /\ sent[1].rpc = "MotorService.IsPowered"
                /\ sent[1].req.name = adapter.name
                /\ call.chan.t = "ok"
                     => /\ call.outcome.t = "resolved"
                        /\ call.outcome.value.items =
                             <<call.chan.resp.isOn, call.chan.resp.powerPct>>
        /\ call.m = "Billing.getInvoicePdf"
             => /\ sent = <<DispatchEvent("BillingService.GetInvoicePdf",
                                          [id |-> call.args.id,
                                           orgId |-> call.args.orgId])>>
                /\ (call.chan.t = "end" /\ call.pc = "settled")
                     => /\ call.outcome.t = "resolved"
                        /\ call.outcome.value.bytes =
                             Flatten(MapSeq(BytesOf, call.delivered))
        /\ (call.chan.t = "failed" /\ call.pc = "settled")
             => call.outcome = Rejected(call.chan.err)
        /\ call.pc # "settled" => call.outcome = Pending

\* two invoice streams interleaved chunk by chunk, the second ending first
C14_Witness ==
  /\ DOMAIN calls = {1, 2}
  /\ calls[1].m = "Billing.getInvoicePdf"
  /\ calls[2].m = "Billing.getInvoicePdf"
  /\ calls[1].args.id = "inv-1"
  /\ calls[2].args.id = "inv-2"
  /\ calls[1].pc = "streaming"
  /\ MapSeq(BytesOf, calls[1].delivered) = <<<<1>>, <<2, 0>>>>
  /\ calls[2].chan.t = "end"
  /\ calls[2].pc = "settled"
  /\ calls[2].outcome.value.bytes = <<2, 0>>

StreamMethods == ByteStreamMethods \cup QueueStreamMethods

\* a streaming call has not settled while its source has signalled neither
\* end nor failure, has run its loop body on every chunk delivered so far,
\* and is settled as the source signalled
StreamFollowsSource(c) ==
  LET call == calls[c]
  IN  /\ call.chan = NoAnswer => (call.pc = "streaming" /\ call.outcome = Pending)
      /\ call.outcome # Pending => call.chan.t \in {"end", "failed"}
      /\ call.m \in ByteStreamMethods
           => call.chunks = MapSeq(BytesOf, call.delivered)
      /\ call.m \in QueueStreamMethods
           => queue = call.q0 \o Flatten(MapSeq(EntriesOf, call.delivered))
      /\ call.pc = "settled"
           => /\ call.chan.t = "end" => call.outcome.t = "resolved"
              /\ call.chan.t = "failed" => call.outcome = Rejected(call.chan.err)

\* C15: a streaming call runs to natural completion: it does not settle
\* before its source signals end-of-stream or failure, it consumes every
\* delivered chunk, and once the source has signalled end-of-stream it
\* eventually resolves, while once it has signalled failure it eventually
\* rejects.
C15_StreamsRunToCompletion ==
  /\ [](\A c \in DOMAIN calls :
          (calls[c].pc # "idle" /\ calls[c].m \in StreamMethods)
          => StreamFollowsSource(c))
  /\ (calls[1].pc = "resuming" /\ calls[1].chan.t = "end")
       ~> (calls[1].pc = "settled" /\ calls[1].outcome.t = "resolved")
  /\ (calls[1].pc = "resuming" /\ calls[1].chan.t = "failed")
       ~> (calls[1].pc = "settled" /\ calls[1].outcome.t = "rejected")

C15_Witness ==
  \E c \in DOMAIN calls :
    /\ calls[c].m = "Board.streamTicks"
    /\ Len(calls[c].delivered) = MaxChunks
    /\ calls[c].chan.t = "end"
    /\ calls[c].pc = "settled"
    /\ calls[c].outcome.t = "resolved"
    /\ Len(queue) = Len(calls[c].q0) + MaxChunks

\* the request value a unary method constructs from its arguments, before it
\* invokes the logger
Constructed(c) ==
  CASE calls[c].m \in {"Motor.setPower", "MotorPb.setPower"} ->
         [name |-> adapter.name, powerPct |-> calls[c].args.power,
          extra |-> [fields |-> EmptyObject]]
    [] calls[c].m = "Motor.doCommand" ->
         [name |-> adapter.name, command |-> calls[c].args.command]

\* C16: the request the channel receives is equal, field by field, to the
\* request the adapter constructed before invoking the logger, whatever the
\* logger does with its argument.
C16_LoggerNeverAltersRequest ==
  \A c \in DOMAIN calls :
    (\/ calls[c].m = "Motor.doCommand"
     \/ /\ calls[c].m \in {"Motor.setPower", "MotorPb.setPower"}
        /\ calls[c].args.extra = Undefined)
    => \A i \in DOMAIN calls[c].trace :
         calls[c].trace[i].ev = "dispatch"
         => calls[c].trace[i].req = Constructed(c)

\* C17: a call on an adapter without a requestLogger dispatches the request
\* that the same call dispatches on the adapter with a logger, and settles
\* as that call does on the same answer of the channel; the absent hook
\* raises no error and adds no step to the call.
C17_AbsentLoggerIsNoOp ==
  \A c \in DOMAIN calls :
    (calls[c].pc # "idle" /\ calls[c].m \in MethodsWithOptions)
    => LET call == calls[c]
           absent == adapter.options.requestLogger = "absent"
           other == [adapter EXCEPT !.options.requestLogger =
                                      IF absent THEN "returns" ELSE "absent"]
           twin == PrefixOf(call.m, other, call.args)
       IN  /\ Dispatches(call.trace) = Dispatches(twin.trace)
           /\ absent => (call.trace = Dispatches(call.trace)
                         /\ Len(call.trace) = 1)
           /\ ~ absent => Len(call.trace) = 2
           /\ ~ (call.pc = "settled" /\ call.chan = NoAnswer)
           /\ (call.pc = "settled" /\ call.chan.t = "failed")
                => call.outcome = Rejected(call.chan.err)
           /\ (call.pc = "settled" /\ call.chan.t = "ok")
                => call.outcome = Resume(call.m, call.chan.resp)

C17_Witness ==
  \E c \in DOMAIN calls :
    /\ calls[c].m = "Gantry.moveToPosition"
    /\ adapter.options.requestLogger = "absent"
    /\ Len(calls[c].trace) = 1
    /\ calls[c].pc = "settled"
    /\ calls[c].outcome = Resolved(Undefined)

\* C18: every entry tabularDataByFilter returns gets an empty metadata value
\* when its metadataIndex is out of the bounds of the metadata list of the
\* response, and the metadata at that index of the list when it is in bounds.
C18_MetadataByIndex ==
  \A c \in DOMAIN calls :
    (/\ calls[c].m = "Data.tabularDataByFilter"
     /\ calls[c].pc = "settled"
     /\ calls[c].chan.t = "ok")
    => LET response == calls[c].chan.resp
           page == calls[c].outcome.value
       IN  /\ Len(page.data) = Len(response.data)
           /\ \A i \in DOMAIN response.data :
                LET mdIndex == response.data[i].metadataIndex
                IN  IF mdIndex >= Len(response.metadata)
                    THEN page.data[i].metadata = NewCaptureMetadata
                    ELSE page.data[i].metadata = response.metadata[mdIndex + 1]

\* C19: tabularDataByFilter and binaryDataByFilter called without a limit
\* dispatch a data request whose limit is 50.
C19_DefaultPageSize ==
  \A c \in DOMAIN calls :
    (/\ calls[c].m \in {"Data.tabularDataByFilter", "Data.binaryDataByFilter"}
     /\ calls[c].args.limit = Undefined)
    => /\ Len(Dispatches(calls[c].trace)) = 1
       /\ Dispatches(calls[c].trace)[1].req.dataRequest.limit = BigInt(50)

\* C20: getPose rejects with the local error 'no pose' when the remote call
\* succeeded and the response carries no pose, and resolves with exactly the
\* pose of the response otherwise; either way after exactly one remote call.
C20_NoPose ==
  \A c \in DOMAIN calls :
    (/\ calls[c].m = "Motion.getPose"
     /\ calls[c].pc = "settled"
     /\ calls[c].chan.t = "ok")
    => LET pose == calls[c].chan.resp.pose
       IN  /\ pose = Undefined
                => calls[c].outcome = Rejected(LocalError("no pose"))
           /\ pose # Undefined => calls[c].outcome = Resolved(pose)
           /\ Len(Dispatches(calls[c].trace)) = 1
           /\ wire <= invoked

C20_Witness ==
  \E c \in DOMAIN calls :
    /\ calls[c].m = "Motion.getPose"
    /\ calls[c].chan.t = "ok"
    /\ calls[c].chan.resp.pose = Undefined
    /\ calls[c].outcome = Rejected(LocalError("no pose"))
    /\ wire = 1

\* what an event of the stream makes of a pending promise: a settlement, or
\* Pending when the event settles nothing
SettlementOf(event) ==
  CASE event.on = "data" -> Pending
    [] event.on = "status" ->
         IF event.arg.code = 0 THEN Pending
         ELSE Rejected([message |-> event.arg.details, code |-> event.arg.code,
                        metadata |-> event.arg.metadata])
    [] event.on = "end" ->
         IF event.arg = Undefined
         THEN Rejected([message |-> "Stream ended without a status code"])
         ELSE IF event.arg.code = 0 THEN Resolved(Undefined)
         ELSE Rejected([message |-> event.arg.details, code |-> event.arg.code,
                        metadata |-> event.arg.metadata])

RECURSIVE FirstSettlement(_)
\* the settlement of the first event that settles
FirstSettlement(events) ==
  IF events = <<>> THEN Pending
  ELSE IF SettlementOf(Head(events)) # Pending THEN SettlementOf(Head(events))
  ELSE FirstSettlement(Tail(events))

\* C21: the promise of the event-listener streamTicks settles at most once
\* and its first settlement wins: it is settled as the first event that
\* settles says (a non-zero 'status' rejects, an 'end' without a status or
\* with a non-zero code rejects, an 'end' with code 0 resolves), and once
\* settled it keeps its outcome whatever event follows: the resolve() after
\* a rejection in the 'end' listener does not make it a success.
C21_FirstSettlementWins ==
  /\ [](\A c \in DOMAIN calls :
          (calls[c].m = "BoardPb.streamTicks" /\ calls[c].chan.t = "open")
          => calls[c].outcome = FirstSettlement(calls[c].chan.events))
  /\ [][\A c \in DOMAIN calls :
          (/\ calls[c].m = "BoardPb.streamTicks"
           /\ calls[c].outcome # Pending
           /\ calls'[c].m = "BoardPb.streamTicks")
          => calls'[c].outcome = calls[c].outcome]_vars

\* a non-zero 'status' has rejected the promise and the 'end' that follows,
\* which calls reject and then resolve(), has left it rejected
C21_Witness ==
  \E c \in DOMAIN calls :
    /\ calls[c].m = "BoardPb.streamTicks"
    /\ calls[c].chan.t = "open"
    /\ Len(calls[c].chan.events) = 2
    /\ calls[c].chan.events[1].on = "status"
    /\ calls[c].chan.events[1].arg.code = 14
    /\ calls[c].chan.events[2].on = "end"
    /\ calls[c].chan.events[2].arg # Undefined
    /\ calls[c].chan.events[2].arg.code = 14
    /\ calls[c].outcome.t = "rejected"

\* C22: when the source of a streaming call fails after it has delivered
\* chunks, the call rejects with the failure of the source: a
\* byte-accumulating call returns no buffer, not even a partial one, and a
\* queue-appending call leaves in the caller's queue, after its content at
\* the call, every entry delivered before the failure, in delivery order.
C22_StreamFailurePropagates ==
  \A c \in DOMAIN calls :
    (/\ calls[c].m \in ByteStreamMethods \cup QueueStreamMethods
     /\ calls[c].chan.t = "failed"
     /\ calls[c].pc = "settled")
    => /\ calls[c].outcome.t = "rejected"
       /\ calls[c].outcome.error = calls[c].chan.err
       /\ "value" \notin DOMAIN calls[c].outcome
       /\ calls[c].m \in QueueStreamMethods
            => /\ Len(queue) >= Len(calls[c].q0)
               /\ SubSeq(queue, 1, Len(calls[c].q0)) = calls[c].q0
               /\ SubSeq(queue, Len(calls[c].q0) + 1, Len(queue))
                    = Flatten(MapSeq(EntriesOf, calls[c].delivered))

\* tailRobotPartLogs has appended two chunks of logs to a queue that held
\* one entry, and its stream has then failed
C22_Witness ==
  \E c \in DOMAIN calls :
    /\ calls[c].m = "App.tailRobotPartLogs"
    /\ calls[c].chan.t = "failed"
    /\ calls[c].pc = "settled"
    /\ calls[c].q0 = <<"log-old">>
    /\ Len(calls[c].delivered) = 2
    /\ calls[c].outcome = Rejected(calls[c].chan.err)
    /\ queue = <<"log-old", "log-a", "log-b", "log-c">>

RECURSIVE IsInterleaving(_, _, _)
\* q holds every entry of a and of b once, those of a in the order of a and
\* those of b in the order of b
IsInterleaving(q, a, b) ==
  IF q = <<>> THEN a = <<>> /\ b = <<>>
  ELSE \/ a # <<>> /\ Head(a) = Head(q) /\ IsInterleaving(Tail(q), Tail(a), b)
       \/ b # <<>> /\ Head(b) = Head(q) /\ IsInterleaving(Tail(q), a, Tail(b))

\* the entries a call has been delivered, in delivery order
EntriesDelivered(c) == Flatten(MapSeq(EntriesOf, calls[c].delivered))

\* C23: while two queue-appending calls run on one queue, whatever the
\* interleaving of their chunks, the queue is its content when the calls
\* were made followed by the entries delivered to the two calls,
\* each entry once, the entries of each call in that call's delivery order.
C23_SharedQueueInterleaves ==
  \A c, d \in DOMAIN calls :
    (/\ c # d
     /\ calls[c].pc # "idle" /\ calls[c].m \in QueueStreamMethods
     /\ calls[d].pc # "idle" /\ calls[d].m \in QueueStreamMethods
     /\ Len(calls[c].q0) <= Len(calls[d].q0))
    => /\ Len(queue) = Len(calls[c].q0) + Len(EntriesDelivered(c))
                       + Len(EntriesDelivered(d))
       /\ SubSeq(queue, 1, Len(calls[c].q0)) = calls[c].q0
       /\ IsInterleaving(SubSeq(queue, Len(calls[c].q0) + 1, Len(queue)),
                         EntriesDelivered(c), EntriesDelivered(d))

\* two tailRobotPartLogs calls on one queue: a chunk of the second call has
\* arrived between two chunks of the first, with a log the first also had
C23_Witness ==
  /\ DOMAIN calls = {1, 2}
  /\ calls[1].m = "App.tailRobotPartLogs" /\ calls[1].pc = "settled"
  /\ calls[2].m = "App.tailRobotPartLogs" /\ calls[2].pc = "settled"
  /\ calls[1].delivered = <<[logs |-> <<"log-a">>],
                            [logs |-> <<"log-b", "log-c">>]>>
  /\ calls[2].delivered = <<[logs |-> <<"log-a">>]>>
  /\ queue = <<"log-old", "log-a", "log-a", "log-b", "log-c">>

\* the calls that are handed the caller's queue
QueueAppending(c) ==
  /\ calls[c].pc # "idle"
  /\ calls[c].m \in QueueStreamMethods \cup {"BoardPb.streamTicks"}

IsPrefix(p, q) == Len(p) <= Len(q) /\ SubSeq(q, 1, Len(p)) = p

\* C24: a queue-appending call only appends.  In every state of the call the
\* queue is its content at the call followed by a prefix of the entries
\* delivered to the call, and every step of the call leaves what the queue
\* held where it was: nothing is removed, replaced or reordered.
C24_QueueOnlyGrows ==
  /\ [](\A c \in DOMAIN calls :
          QueueAppending(c)
          => /\ IsPrefix(calls[c].q0, queue)
             /\ IsPrefix(SubSeq(queue, Len(calls[c].q0) + 1, Len(queue)),
                         EntriesDelivered(c)))
  /\ [][\A c \in DOMAIN calls :
          (QueueAppending(c) /\ calls'[c].pc # "idle")
          => IsPrefix(queue, queue')]_vars

\* streamTicks, in the middle of its stream, has appended two ticks to a
\* queue that held one
C24_Witness ==
  \E c \in DOMAIN calls :
    /\ calls[c].m = "Board.streamTicks"
    /\ calls[c].pc = "streaming"
    /\ Len(calls[c].q0) = 1
    /\ Len(calls[c].delivered) = 2
    /\ queue = calls[c].q0 \o calls[c].delivered

\* C25: on an adapter whose requestLogger throws, a method call rejects with
\* the error the logger threw and dispatches nothing: the logger is the
\* only event of the call, and the channel is never called.
C25_ThrowingLoggerRejects ==
  /\ \A c \in DOMAIN calls :
       (/\ calls[c].pc # "idle"
        /\ calls[c].m \in {"Motor.setPower", "MotorPb.setPower",
                           "Motor.doCommand"}
        /\ adapter.options.requestLogger = "throws")
       => /\ calls[c].pc = "settled"
          /\ calls[c].outcome = Rejected(LoggerError)
          /\ Dispatches(calls[c].trace) = <<>>
          /\ Len(Logs(calls[c].trace)) = 1
          /\ calls[c].chan = NoAnswer
  /\ (adapter # NotConstructed /\ adapter.options.requestLogger = "throws")
       => wire = 0

\* setPower and then doCommand have been called on an adapter whose logger
\* throws: doCommand has rejected and nothing has been dispatched
C25_Witness ==
  \E c \in DOMAIN calls :
    /\ adapter # NotConstructed
    /\ adapter.options.requestLogger = "throws"
    /\ invoked = 2
    /\ calls[c].m = "Motor.doCommand"
    /\ calls[c].pc = "settled"
    /\ calls[c].outcome.t = "rejected"
    /\ wire = 0

\* C26: every entry tabularDataByFilter returns carries the times of its own
\* datum of the response: timeRequested is the date of the datum's request
\* time and timeReceived the date of the datum's receive time, each
\* undefined exactly when the datum has no such time.
C26_EntryTimes ==
  \A c \in DOMAIN calls :
    (/\ calls[c].m = "Data.tabularDataByFilter"
     /\ calls[c].pc = "settled"
     /\ calls[c].chan.t = "ok")
    => LET datums == calls[c].chan.resp.data
           entries == calls[c].outcome.value.data
       IN  /\ Len(entries) = Len(datums)
           /\ \A i \in DOMAIN datums :
                /\ entries[i].timeRequested
                     = TimestampToDate(datums[i].timeRequested)
                /\ entries[i].timeReceived
                     = TimestampToDate(datums[i].timeReceived)
                /\ entries[i].timeRequested = Undefined
                     <=> datums[i].timeRequested = Undefined
                /\ entries[i].timeReceived = Undefined
                     <=> datums[i].timeReceived = Undefined

\* the operations of the Board interface that take pins, values, a power
\* mode, a duration and an extension map
BoardOperations == BoardUnaryOperations \cup {"streamTicks"}
BoardMethods == {BoardMethod[op][v] : op \in BoardOperations, v \in {1, 2}}

\* the synchronous prefix of the same operation, on the same handle and with
\* the same arguments, in the other variant
TwinPrefix(m, self, args) ==
  LET op == CHOOSE o \in BoardOperations :
              m \in {BoardMethod[o][1], BoardMethod[o][2]}
      literal == m = BoardMethod[op][1]
  IN  IF op = "streamTicks"
      THEN IF literal
           THEN StreamTicksPbCall(self, args.interrupts, args.extra)
           ELSE StreamTicksCall(self, args.interrupts, args.extra)
      ELSE IF literal THEN BoardPbCall(self, op, args)
           ELSE BoardCall(self, op, args)

\* the name of the resource a request is addressed to
ResourceNameOf(request) ==
  IF "boardName" \in DOMAIN request THEN request.boardName ELSE request.name

\* C27: the two variants of BoardClient build the same requests.  A call
\* of an operation of the Board interface logs and dispatches what the
\* same call, with the same arguments, logs and dispatches on the other
\* variant: the same remote method, a request addressed to the bound name
\* with the same field values, handed to the logger before it is dispatched.
C27_BoardVariantsAgree ==
  \A c \in DOMAIN calls :
    (calls[c].pc # "idle" /\ calls[c].m \in BoardMethods)
    => LET twin == TwinPrefix(calls[c].m, adapter, calls[c].args)
           sent == Dispatches(calls[c].trace)
       IN  /\ Len(sent) = 1
           /\ ResourceNameOf(sent[1].req) = adapter.name
           /\ sent = Dispatches(twin.trace)
           /\ Logs(calls[c].trace) = Logs(twin.trace)
           /\ adapter.options.requestLogger # "absent"
                => /\ Len(calls[c].trace) = 2
                   /\ calls[c].trace[1] = LogEvent(sent[1].req)

\* C28: getReadings returns a map whose keys are exactly the keys of the
\* readings of the response that have a value, each with the JSON form of
\* that value; a key without a value is left out and no key is added.
C28_ReadingsMap ==
  \A c \in DOMAIN calls :
    (/\ calls[c].m = "Sensor.getReadings"
     /\ calls[c].pc = "settled"
     /\ calls[c].chan.t = "ok")
    => LET readings == calls[c].chan.resp.readings
           present == {k \in DOMAIN readings : readings[k] # Undefined}
       IN  /\ calls[c].outcome.t = "resolved"
           /\ DOMAIN calls[c].outcome.value.members = present
           /\ \A k \in present :
                calls[c].outcome.value.members[k] = ValueToJson(readings[k])

\* one reading is the number 0 and the other key has no value: the map has
\* the first key alone, with 0
C28_Witness ==
  \E c \in DOMAIN calls :
    /\ calls[c].m = "Sensor.getReadings"
    /\ calls[c].pc = "settled"
    /\ calls[c].chan.t = "ok"
    /\ DOMAIN calls[c].chan.resp.readings = ReadingKeys
    /\ calls[c].chan.resp.readings["temperature"] = Undefined
    /\ calls[c].chan.resp.readings["humidity"]
         = [case |-> "numberValue", value |-> Num(0)]
    /\ DOMAIN calls[c].outcome.value.members = {"humidity"}
    /\ calls[c].outcome.value.members["humidity"] = Num(0)

\* a call of createFilter that has returned
CreatedFilter(c) ==
  /\ calls[c].m = "Data.createFilter"
  /\ calls[c].pc = "settled"
  /\ calls[c].outcome.t = "returned"

\* C29: createFilter sets the capture interval of the filter if and only if
\* startTime or endTime is given, with the start of the interval set exactly
\* when startTime is given and its end exactly when endTime is given, and
\* sets the tags filter if and only if tags is given; it makes no remote
\* call.
C29_FilterSetsIntervalAndTags ==
  \A c \in DOMAIN calls :
    CreatedFilter(c)
    => LET options == calls[c].args
           filter == calls[c].outcome.value
       IN  /\ filter.interval # Undefined
                <=> (options.startTime # Undefined
                     \/ options.endTime # Undefined)
           /\ filter.interval # Undefined
                => /\ filter.interval.start # Undefined
                        <=> options.startTime # Undefined
                   /\ filter.interval.end # Undefined
                        <=> options.endTime # Undefined
           /\ filter.tagsFilter # Undefined <=> options.tags # Undefined
           /\ calls[c].trace = <<>>

\* C29, amended: when startTime or endTime is given, the capture interval of
\* the filter is a new interval whose start is the timestamp of startTime
\* exactly when startTime is given and whose end is the timestamp of endTime
\* exactly when endTime is given; otherwise the interval is the one the
\* options carry as a member of Filter, if any.  When tags is given the tags
\* filter is a new one with those tags; otherwise it is the one the options
\* carry, if any.  createFilter makes no remote call.
C29_FilterFromOptions ==
  \A c \in DOMAIN calls :
    CreatedFilter(c)
    => LET options == calls[c].args
           filter == calls[c].outcome.value
           timed == options.startTime # Undefined \/ options.endTime # Undefined
       IN  /\ timed
                => /\ filter.interval # Undefined
                   /\ filter.interval.start
                        = IF options.startTime = Undefined THEN Undefined
                          ELSE TimestampFromDate(options.startTime.ms)
                   /\ filter.interval.end
                        = IF options.endTime = Undefined THEN Undefined
                          ELSE TimestampFromDate(options.endTime.ms)
           /\ ~ timed => filter.interval = options.interval
           /\ options.tags # Undefined
                => /\ filter.tagsFilter # Undefined
                   /\ filter.tagsFilter.tags = options.tags.items
           /\ options.tags = Undefined
                => filter.tagsFilter = options.tagsFilter
           /\ calls[c].trace = <<>>
           /\ calls[c].chan = NoAnswer

\* createFilter with an endTime and tags but no startTime, on options that
\* carry an interval of their own: the interval is new and has an end only
C29_Witness ==
  \E c \in DOMAIN calls :
    /\ CreatedFilter(c)
    /\ calls[c].args.startTime = Undefined
    /\ calls[c].args.endTime = Date(2500)
    /\ calls[c].args.interval # Undefined
    /\ calls[c].args.tags # Undefined
    /\ calls[c].outcome.value.interval
         = [start |-> Undefined, end |-> [seconds |-> 2, nanos |-> 500000000]]
    /\ calls[c].outcome.value.tagsFilter.tags = calls[c].args.tags.items
    /\ wire = 0

====
